---- MODULE Spec2Model ----
(***************************************************************************)
(* Blog summarizer: the response-normalization and fallback pipeline       *)
(* (summarizer.ts, translator.ts, gemini.ts, urdu-utils.ts) and the        *)
(* POST /api/summarize handler that drives it.                             *)
(*                                                                         *)
(* A text is a sequence of Unicode code points, so that the regular        *)
(* expressions of the source are character ranges here.                    *)
(***************************************************************************)
EXTENDS Integers, Sequences, FiniteSets, TLC

----------------------------------------------------------------------------
(* Character classes of the JavaScript regular expressions used.           *)

\* \s
IsSpace(c) ==
    \/ c \in {9, 10, 11, 12, 13, 32, 160, 5760, 8232, 8233, 8239, 8287, 12288, 65279}
    \/ c \in 8192..8202

\* \d
IsDigit(c) == c \in 48..57

\* [a-zA-Z]
IsLatin(c) == c \in 65..90 \/ c \in 97..122

\* [\u0600-\u06FF\u0750-\u077F\u08A0-\u08FF\uFB50-\uFDFF\uFE70-\uFEFF]
IsUrduChar(c) ==
    \/ c \in 1536..1791
    \/ c \in 1872..1919
    \/ c \in 2208..2303
    \/ c \in 64336..65023
    \/ c \in 65136..65279

----------------------------------------------------------------------------
(* String primitives of JavaScript, on sequences of code points. They are  *)
(* defined by the positions of the matches, without recursion over the     *)
(* characters.                                                             *)

\* const v = ...; F(v): an intermediate result, named
With(v, F(_)) == F(v)

\* The least element of S, d if S is empty; the greatest likewise.
MinOr(S, d) == IF S = {} THEN d ELSE CHOOSE x \in S : \A y \in S : x <= y
MaxOr(S, d) == IF S = {} THEN d ELSE CHOOSE x \in S : \A y \in S : x >= y

\* <<1, ..., n>>
Indices(n) == [i \in 1..n |-> i]

\* The least index j >= i of s with P(s[j]); past the end of s if there is none.
FirstFrom(s, i, P(_)) ==
    MinOr({j \in i..Len(s) : P(s[j])}, IF i > Len(s) THEN i ELSE Len(s) + 1)

FirstNonSpace(s, i) == FirstFrom(s, i, LAMBDA c : ~IsSpace(c))

LastNonSpace(s, i) == MaxOr({j \in 1..i : j <= Len(s) /\ ~IsSpace(s[j])}, 0)

\* String.prototype.trim
Trim(s) == SubSeq(s, FirstNonSpace(s, 1), LastNonSpace(s, Len(s)))

\* String.prototype.toLowerCase (the texts here have case in ASCII only)
ToLower(s) == [i \in 1..Len(s) |-> IF s[i] \in 65..90 THEN s[i] + 32 ELSE s[i]]

\* The pieces of s between the separators, which start at the indices a and
\* end at the indices b
Pieces(s, a, b) ==
    [k \in 1..(Len(a) + 1) |->
        SubSeq(s, IF k = 1 THEN 1 ELSE b[k - 1] + 1,
                  IF k = Len(a) + 1 THEN Len(s) ELSE a[k] - 1)]

\* s.split(/[sep]+/): the pieces between the maximal runs of separators
SplitRunsBy(s, IsSep(_)) ==
    Pieces(s,
           SelectSeq(Indices(Len(s)), LAMBDA i : IsSep(s[i]) /\ (i = 1 \/ ~IsSep(s[i - 1]))),
           SelectSeq(Indices(Len(s)), LAMBDA i : IsSep(s[i]) /\ (i = Len(s) \/ ~IsSep(s[i + 1]))))

\* s.split(/\s+/)
SplitSpace(s) == SplitRunsBy(s, IsSpace)

\* s.split(c) for a one-character separator c: every occurrence splits
SplitEach(s, c) ==
    With(SelectSeq(Indices(Len(s)), LAMBDA i : s[i] = c), LAMBDA at : Pieces(s, at, at))

\* Array.prototype.join
RECURSIVE Join(_, _)
Join(parts, sep) ==
    IF Len(parts) = 0 THEN <<>>
    ELSE IF Len(parts) = 1 THEN parts[1]
    ELSE Join(SubSeq(parts, 1, Len(parts) \div 2), sep) \o sep
         \o Join(SubSeq(parts, Len(parts) \div 2 + 1, Len(parts)), sep)

\* s.replace(/\s+/g, ' '): of each run of whitespace the first character
\* stays, as a space
CollapseSpace(s) ==
    With(SelectSeq(Indices(Len(s)), LAMBDA i : ~IsSpace(s[i]) \/ i = 1 \/ ~IsSpace(s[i - 1])),
         LAMBDA idx : [k \in 1..Len(idx) |-> IF IsSpace(s[idx[k]]) THEN 32 ELSE s[idx[k]]])

\* s.startsWith(w, i): w occurs in s at index i
OccursAt(s, w, i) ==
    /\ i >= 1
    /\ i + Len(w) - 1 <= Len(s)
    /\ \A k \in 1..Len(w) : s[i + k - 1] = w[k]

\* String.prototype.includes
Includes(s, w) == \E i \in 1..(Len(s) - Len(w) + 1) : OccursAt(s, w, i)

\* Array.prototype.slice(0): every element, n or not
TakeAll(xs, n) == xs

\* Array.prototype.slice(0, n)
Take(xs, n) == SubSeq(xs, 1, IF n < Len(xs) THEN n ELSE Len(xs))

\* Array.prototype.map(x => x.trim())
TrimAll(xs) == [i \in 1..Len(xs) |-> Trim(xs[i])]

----------------------------------------------------------------------------
(* urdu-utils.ts                                                           *)

containsUrduScript(text) == \E i \in 1..Len(text) : IsUrduChar(text[i])

\* s.replace(/^\s*["""]|["""]\s*$/g, ''): the quote after the leading
\* whitespace, then the quote before the trailing whitespace
StripQuotes(s) ==
    With(With(FirstNonSpace(s, 1),
              LAMBDA i : IF i <= Len(s) /\ s[i] = 34 THEN SubSeq(s, i + 1, Len(s)) ELSE s),
         LAMBDA t : With(LastNonSpace(t, Len(t)),
                         LAMBDA i : IF i >= 1 /\ t[i] = 34 THEN SubSeq(t, 1, i - 1) ELSE t))

\* The prefixes of /^(P1|P2|P3)/i, in the order the alternation tries them:
\* "Urdu translation:", "translation:", "this is the Urdu translation:" in Urdu
UrduPrefixes ==
    << <<1575, 1585, 1583, 1608, 32, 1578, 1585, 1580, 1605, 1729, 58>>,
       <<1578, 1585, 1580, 1605, 1729, 58>>,
       <<1740, 1729, 32, 1575, 1585, 1583, 1608, 32, 1578, 1585, 1580, 1605, 1729, 32, 1729, 1746, 58>> >>

\* text.trim().replace(/\s+/g, ' '), then the quotes, then
\* .replace(/^(P1|P2|P3)/i, ''), which leaves s without the first of the
\* prefixes that match it, the k-th; then .trim()
normalizeUrduText(text) ==
    Trim(With(StripQuotes(CollapseSpace(Trim(text))),
              LAMBDA s :
                 With(MinOr({k \in 1..Len(UrduPrefixes) : OccursAt(s, UrduPrefixes[k], 1)}, 0),
                      LAMBDA k : IF k = 0 THEN s
                                 ELSE SubSeq(s, Len(UrduPrefixes[k]) + 1, Len(s)))))

\* lines.filter(line => containsUrduScript(line)), joined if there are any
extractUrduText(text) ==
    With(SelectSeq(SplitEach(text, 10), containsUrduScript),
         LAMBDA urduLines : IF Len(urduLines) > 0 THEN Trim(Join(urduLines, <<10>>)) ELSE text)

\* The issues of validateUrduTranslation, in the order they are pushed.
NoScript == "Translation does not contain Urdu script"
TooShort == "Translation seems too short"
TooEnglish == "Translation contains too many English words"

\* { isValid: issues.length === 0, issues }. x < n * 0.3 and x > n * 0.7 are
\* taken in integers; translatedText.match(/[a-zA-Z]+/g) || [] has as many
\* elements as translatedText has maximal runs of Latin letters, and
\* originalText.split(' ') splits at every single space.
validateUrduTranslation(originalText, translatedText) ==
    With((IF ~containsUrduScript(translatedText) THEN <<NoScript>> ELSE <<>>)
         \o (IF 10 * Len(translatedText) < 3 * Len(originalText) THEN <<TooShort>> ELSE <<>>)
         \o (IF 10 * Cardinality({i \in 1..Len(translatedText) :
                                     /\ IsLatin(translatedText[i])
                                     /\ i = 1 \/ ~IsLatin(translatedText[i - 1])})
                   > 7 * Len(SplitEach(originalText, 32))
             THEN <<TooEnglish>> ELSE <<>>),
         LAMBDA issues : [isValid |-> Len(issues) = 0, issues |-> issues])

\* processed.replace(/(\u0600-\u06FF)\s+(\u0600-\u06FF)/g, '$1$2'), from index i on: the
\* group is the three characters U+0600 '-' U+06FF, not a character class. A
\* match starts at m: the three characters, whitespace, the three characters.
RECURSIVE FixUrduSpacingFrom(_, _)
FixUrduSpacingFrom(s, i) ==
    With(MinOr({m \in i..Len(s) : /\ OccursAt(s, <<1536, 45, 1791>>, m)
                                  /\ IsSpace(s[m + 3])
                                  /\ OccursAt(s, <<1536, 45, 1791>>, FirstNonSpace(s, m + 3))}, 0),
         LAMBDA m : IF m = 0 THEN SubSeq(s, i, Len(s))
                    ELSE SubSeq(s, i, m + 2) \o <<1536, 45, 1791>>
                         \o FixUrduSpacingFrom(s, FirstNonSpace(s, m + 3) + 3))

\* processed.replace(/([\u06D4\u061F!])\s*([^\s])/g, '$1 $2'), from index i on. A
\* match starts at m and its second group is the character at n.
RECURSIVE FixPunctuationFrom(_, _)
FixPunctuationFrom(s, i) ==
    With(MinOr({m \in i..Len(s) : s[m] \in {1748, 1567, 33} /\ FirstNonSpace(s, m + 1) <= Len(s)}, 0),
         LAMBDA m : IF m = 0 THEN SubSeq(s, i, Len(s))
                    ELSE With(FirstNonSpace(s, m + 1),
                              LAMBDA n : SubSeq(s, i, m) \o <<32, s[n]>>
                                         \o FixPunctuationFrom(s, n + 1)))

postProcessUrduTranslation(text) ==
    FixPunctuationFrom(FixUrduSpacingFrom(normalizeUrduText(text), 1), 1)

----------------------------------------------------------------------------
(* JavaScript values, as far as the pipeline handles them: whatever        *)
(* JSON.parse returns flows untyped into the results.                      *)

JUndefined == [t |-> "undefined"]
JNull == [t |-> "null"]
JBool(b) == [t |-> "boolean", b |-> b]
JNum(n) == [t |-> "number", n |-> n]
JStr(s) == [t |-> "string", s |-> s]
\* xs: a sequence of values
JArr(xs) == [t |-> "array", xs |-> xs]
\* ms: the members, a sequence of <<key, value>> in source order
JObj(ms) == [t |-> "object", ms |-> ms]

IsStr(v) == v.t = "string"

\* ToBoolean
Truthy(v) ==
    CASE v.t = "undefined" -> FALSE
      [] v.t = "null" -> FALSE
      [] v.t = "boolean" -> v.b
      [] v.t = "number" -> v.n # 0
      [] v.t = "string" -> Len(v.s) > 0
      [] OTHER -> TRUE

\* a || b
OrElse(a, b) == IF Truthy(a) THEN a ELSE b

\* The outcome of an evaluation: a value, or a thrown error.
Ok(v) == [k |-> "ok", v |-> v]
Throw(e) == [k |-> "throw", e |-> e]

\* v[key] where the property is not one of the built-in ones: the last member
\* of that name of an object, undefined on any other value that has properties
Member(v, key) ==
    IF v.t = "object" /\ \E i \in 1..Len(v.ms) : v.ms[i][1] = key
    THEN v.ms[MaxOr({i \in 1..Len(v.ms) : v.ms[i][1] = key}, 0)][2]
    ELSE JUndefined

\* Reading a property of null or undefined is a TypeError.
CanRead(v) == v.t \notin {"null", "undefined"}

----------------------------------------------------------------------------
(* JSON.parse, for the JSON texts without number signs, fractions and      *)
(* \u escapes. A parse step returns [ok, v, i]: success, the value, and    *)
(* the index after it.                                                     *)

SkipJsonSpace(s, i) == FirstFrom(s, i, LAMBDA c : c \notin {32, 9, 10, 13})

Parsed(v, i) == [ok |-> TRUE, v |-> v, i |-> i]

ParseFail == [ok |-> FALSE, v |-> JStr(<<>>), i |-> 1]

\* The characters of a string literal from index i on, after acc: up to the
\* closing quote, one escape (of " \ / b f n r t) at a time. j is the first
\* quote, backslash or control character.
RECURSIVE ParseChars(_, _, _)
ParseChars(s, i, acc) ==
    With(FirstFrom(s, i, LAMBDA c : c \in {34, 92} \/ c < 32),
         LAMBDA j :
            IF j > Len(s) THEN ParseFail
            ELSE IF s[j] = 34 THEN Parsed(JStr(acc \o SubSeq(s, i, j - 1)), j + 1)
            ELSE IF s[j] = 92 /\ j + 1 <= Len(s)
                    /\ s[j + 1] \in {34, 92, 47, 98, 102, 110, 114, 116}
                 THEN ParseChars(s, j + 2,
                          acc \o SubSeq(s, i, j - 1)
                          \o <<CASE s[j + 1] = 98 -> 8
                                 [] s[j + 1] = 102 -> 12
                                 [] s[j + 1] = 110 -> 10
                                 [] s[j + 1] = 114 -> 13
                                 [] s[j + 1] = 116 -> 9
                                 [] OTHER -> s[j + 1]>>)
            ELSE ParseFail)

\* The index after the digits that start at i.
DigitsEnd(s, i) == FirstFrom(s, i, LAMBDA c : ~IsDigit(c))

\* The value of the digits s[i..j]
RECURSIVE DigitsValue(_, _, _)
DigitsValue(s, i, j) ==
    IF j < i THEN 0 ELSE 10 * DigitsValue(s, i, j - 1) + (s[j] - 48)

RECURSIVE ParseValue(_, _)

\* The elements of an array after "[" or ",": the value e, then at j "," or "]".
RECURSIVE ParseElements(_, _, _)
ParseElements(s, i, acc) ==
    With(ParseValue(s, i),
         LAMBDA e : With(SkipJsonSpace(s, e.i),
                         LAMBDA j :
                            IF ~e.ok \/ j > Len(s) THEN ParseFail
                            ELSE IF s[j] = 93 THEN Parsed(JArr(Append(acc, e.v)), j + 1)
                            ELSE IF s[j] = 44 THEN ParseElements(s, j + 1, Append(acc, e.v))
                            ELSE ParseFail))

\* The members of an object after "{" or ",": the string key, ":", the value
\* e, then at j "," or "}".
RECURSIVE ParseMembers(_, _, _)
ParseMembers(s, i, acc) ==
    With(IF OccursAt(s, <<34>>, SkipJsonSpace(s, i))
         THEN ParseChars(s, SkipJsonSpace(s, i) + 1, <<>>)
         ELSE ParseFail,
         LAMBDA key :
            With(IF key.ok /\ OccursAt(s, <<58>>, SkipJsonSpace(s, key.i))
                 THEN ParseValue(s, SkipJsonSpace(s, key.i) + 1)
                 ELSE ParseFail,
                 LAMBDA e :
                    With(SkipJsonSpace(s, e.i),
                         LAMBDA j :
                            IF ~e.ok \/ j > Len(s) THEN ParseFail
                            ELSE IF s[j] = 125
                                 THEN Parsed(JObj(Append(acc, <<key.v.s, e.v>>)), j + 1)
                            ELSE IF s[j] = 44
                                 THEN ParseMembers(s, j + 1, Append(acc, <<key.v.s, e.v>>))
                            ELSE ParseFail)))

\* The value that starts at or after index i: at a, the first character that
\* is no whitespace. The literals are null, true and false.
ParseValue(s, i) ==
    With(SkipJsonSpace(s, i),
         LAMBDA a :
            IF a > Len(s) THEN ParseFail
            ELSE IF s[a] = 34 THEN ParseChars(s, a + 1, <<>>)
            ELSE IF s[a] = 91
                 THEN IF OccursAt(s, <<93>>, SkipJsonSpace(s, a + 1))
                      THEN Parsed(JArr(<<>>), SkipJsonSpace(s, a + 1) + 1)
                      ELSE ParseElements(s, a + 1, <<>>)
            ELSE IF s[a] = 123
                 THEN IF OccursAt(s, <<125>>, SkipJsonSpace(s, a + 1))
                      THEN Parsed(JObj(<<>>), SkipJsonSpace(s, a + 1) + 1)
                      ELSE ParseMembers(s, a + 1, <<>>)
            ELSE IF IsDigit(s[a])
                 THEN IF s[a] = 48 /\ a + 1 <= Len(s) /\ IsDigit(s[a + 1])
                      THEN ParseFail
                      ELSE Parsed(JNum(DigitsValue(s, a, DigitsEnd(s, a) - 1)), DigitsEnd(s, a))
            ELSE IF OccursAt(s, <<110, 117, 108, 108>>, a) THEN Parsed(JNull, a + 4)
            ELSE IF OccursAt(s, <<116, 114, 117, 101>>, a) THEN Parsed(JBool(TRUE), a + 4)
            ELSE IF OccursAt(s, <<102, 97, 108, 115, 101>>, a) THEN Parsed(JBool(FALSE), a + 5)
            ELSE ParseFail)

\* JSON.parse(text): the value, if only whitespace follows it, or a SyntaxError
JSONparse(text) ==
    With(ParseValue(text, 1),
         LAMBDA r : IF r.ok /\ SkipJsonSpace(text, r.i) > Len(text) THEN Ok(r.v)
                    ELSE Throw("SyntaxError"))

----------------------------------------------------------------------------
(* gemini.ts: the pure parts of GeminiService                              *)

KeySummary == <<115, 117, 109, 109, 97, 114, 121>>                      \* summary
KeyKeyPoints == <<107, 101, 121, 80, 111, 105, 110, 116, 115>>          \* keyPoints
KeySummaryUrdu == <<115, 117, 109, 109, 97, 114, 121, 85, 114, 100, 117>>  \* summaryUrdu
\* 'Unable to generate summary'
UnableToGenerate ==
    <<85, 110, 97, 98, 108, 101, 32, 116, 111, 32, 103, 101, 110, 101, 114, 97, 116, 101,
      32, 115, 117, 109, 109, 97, 114, 121>>
\* 'Unable to translate'
UnableToTranslate ==
    <<85, 110, 97, 98, 108, 101, 32, 116, 111, 32, 116, 114, 97, 110, 115, 108, 97, 116, 101>>

\* text.replace(/```json\n?|\n?```/g, ''): the index after the match that
\* starts at i, 0 if none starts there
FenceEnd(s, i) ==
    IF OccursAt(s, <<96, 96, 96, 106, 115, 111, 110>>, i)
    THEN IF i + 7 <= Len(s) /\ s[i + 7] = 10 THEN i + 8 ELSE i + 7
    ELSE IF s[i] = 10 /\ OccursAt(s, <<96, 96, 96>>, i + 1) THEN i + 4
    ELSE IF OccursAt(s, <<96, 96, 96>>, i) THEN i + 3
    ELSE 0

\* From index i on, where the next match starts at m (0: there is none)
RECURSIVE StripFencesFrom(_, _)
StripFencesFrom(s, i) ==
    With(MinOr({m \in i..Len(s) : FenceEnd(s, m) # 0}, 0),
         LAMBDA m : IF m = 0 THEN SubSeq(s, i, Len(s))
                    ELSE SubSeq(s, i, m - 1) \o StripFencesFrom(s, FenceEnd(s, m)))

\* The length of the match of /^\d+\.|^-|^\*|^\u2022/ at the start of line, 0 if
\* none: the digits end before index d.
ListMarkLen(line) ==
    With(FirstFrom(line, 1, LAMBDA c : ~IsDigit(c)),
         LAMBDA d : IF d > 1 /\ d <= Len(line) /\ line[d] = 46 THEN d
                    ELSE IF Len(line) >= 1 /\ line[1] \in {45, 42, 8226} THEN 1
                    ELSE 0)

\* line.replace(/summary:?/i, ''): the first occurrence, at i, whatever its case
RemoveSummaryLabel(line) ==
    With(MinOr({i \in 1..Len(line) : OccursAt(ToLower(line), KeySummary, i)}, 0),
         LAMBDA i : IF i = 0 THEN line
                    ELSE SubSeq(line, 1, i - 1)
                         \o SubSeq(line,
                                   IF i + 7 <= Len(line) /\ line[i + 7] = 58 THEN i + 8 ELSE i + 7,
                                   Len(line)))

\* The loop of extractSummaryFromText over lines[i..], carrying summary and
\* keyPoints: a line that includes 'summary' or 'Summary', or else a list item
RECURSIVE ScanLines(_, _, _, _)
ScanLines(lines, i, summary, keyPoints) ==
    IF i > Len(lines) THEN [summary |-> summary, keyPoints |-> keyPoints]
    ELSE IF Includes(lines[i], KeySummary)
            \/ Includes(lines[i], <<83, 117, 109, 109, 97, 114, 121>>)
         THEN ScanLines(lines, i + 1, Trim(RemoveSummaryLabel(lines[i])), keyPoints)
    ELSE With(ListMarkLen(lines[i]),
              LAMBDA n :
                 IF n > 0
                 THEN ScanLines(lines, i + 1, summary,
                          Append(keyPoints, Trim(SubSeq(lines[i], n + 1, Len(lines[i])))))
                 ELSE ScanLines(lines, i + 1, summary, keyPoints))

\* { summary: string; keyPoints: string[] }, as texts. lines are
\* text.split('\n').filter(line => line.trim()); without a summary line the
\* first three lines are the summary.
extractSummaryFromText(text) ==
    With(SelectSeq(SplitEach(text, 10), LAMBDA line : Len(Trim(line)) > 0),
         LAMBDA lines :
            With(ScanLines(lines, 1, <<>>, <<>>),
                 LAMBDA r : IF Len(r.summary) = 0 /\ Len(lines) > 0
                            THEN [summary |-> Join(Take(lines, 3), <<32>>),
                                  keyPoints |-> r.keyPoints]
                            ELSE r))

\* The basicDict of fallbackTranslation: << English, Urdu >>
basicDict ==
    <<
       << <<116, 104, 101>>, <<1740, 1729>> >>,  \* the
       << <<97, 110, 100>>, <<1575, 1608, 1585>> >>,  \* and
       << <<105, 115>>, <<1729, 1746>> >>,  \* is
       << <<105, 110>>, <<1605, 1740, 1722>> >>,  \* in
       << <<116, 111>>, <<1705, 1608>> >>,  \* to
       << <<111, 102>>, <<1705, 1575>> >>,  \* of
       << <<97>>, <<1575, 1740, 1705>> >>,  \* a
       << <<116, 104, 97, 116>>, <<1740, 1729>> >>,  \* that
       << <<105, 116>>, <<1740, 1729>> >>,  \* it
       << <<119, 105, 116, 104>>, <<1705, 1746, 32, 1587, 1575, 1578, 1726>> >>,  \* with
       << <<102, 111, 114>>, <<1705, 1746, 32, 1604, 1740, 1746>> >>,  \* for
       << <<97, 115>>, <<1580, 1740, 1587, 1746>> >>,  \* as
       << <<119, 97, 115>>, <<1578, 1726, 1575>> >>,  \* was
       << <<111, 110>>, <<1662, 1585>> >>,  \* on
       << <<97, 114, 101>>, <<1729, 1740, 1722>> >>,  \* are
       << <<121, 111, 117>>, <<1570, 1662>> >>,  \* you
       << <<116, 104, 105, 115>>, <<1740, 1729>> >>,  \* this
       << <<98, 101>>, <<1729, 1608, 1606, 1575>> >>,  \* be
       << <<97, 116>>, <<1662, 1585>> >>,  \* at
       << <<98, 121>>, <<1705, 1746, 32, 1584, 1585, 1740, 1593, 1746>> >>,  \* by
       << <<110, 111, 116>>, <<1606, 1729, 1740, 1722>> >>,  \* not
       << <<111, 114>>, <<1740, 1575>> >>,  \* or
       << <<104, 97, 118, 101>>, <<1729, 1746>> >>,  \* have
       << <<102, 114, 111, 109>>, <<1587, 1746>> >>,  \* from
       << <<116, 104, 101, 121>>, <<1608, 1729>> >>,  \* they
       << <<119, 101>>, <<1729, 1605>> >>,  \* we
       << <<98, 117, 116>>, <<1604, 1740, 1705, 1606>> >>,  \* but
       << <<99, 97, 110>>, <<1705, 1585, 32, 1587, 1705, 1578, 1746, 32, 1729, 1740, 1722>> >>,  \* can
       << <<111, 117, 116>>, <<1576, 1575, 1729, 1585>> >>,  \* out
       << <<111, 116, 104, 101, 114>>, <<1583, 1608, 1587, 1585, 1746>> >>,  \* other
       << <<119, 101, 114, 101>>, <<1578, 1726, 1746>> >>,  \* were
       << <<97, 108, 108>>, <<1578, 1605, 1575, 1605>> >>,  \* all
       << <<116, 104, 101, 114, 101>>, <<1608, 1729, 1575, 1722>> >>,  \* there
       << <<119, 104, 101, 110>>, <<1580, 1576>> >>,  \* when
       << <<117, 112>>, <<1575, 1608, 1662, 1585>> >>,  \* up
       << <<117, 115, 101>>, <<1575, 1587, 1578, 1593, 1605, 1575, 1604>> >>,  \* use
       << <<121, 111, 117, 114>>, <<1570, 1662, 32, 1705, 1575>> >>,  \* your
       << <<104, 111, 119>>, <<1705, 1740, 1587, 1746>> >>,  \* how
       << <<111, 117, 114>>, <<1729, 1605, 1575, 1585, 1575>> >>,  \* our
       << <<105, 102>>, <<1575, 1711, 1585>> >>,  \* if
       << <<110, 111>>, <<1606, 1729, 1740, 1722>> >>,  \* no
       << <<104, 97, 100>>, <<1578, 1726, 1575>> >>,  \* had
       << <<119, 104, 97, 116>>, <<1705, 1740, 1575>> >>,  \* what
       << <<115, 111>>, <<1578, 1608>> >>,  \* so
       << <<97, 98, 111, 117, 116>>, <<1705, 1746, 32, 1576, 1575, 1585, 1746, 32, 1605, 1740, 1722>> >>,  \* about
       << <<98, 108, 111, 103>>, <<1576, 1604, 1575, 1711>> >>,  \* blog
       << <<99, 111, 110, 116, 101, 110, 116>>, <<1605, 1608, 1575, 1583>> >>,  \* content
       << <<97, 114, 116, 105, 99, 108, 101>>, <<1605, 1590, 1605, 1608, 1606>> >>,  \* article
       << <<115, 117, 109, 109, 97, 114, 121>>, <<1582, 1604, 1575, 1589, 1729>> >>,  \* summary
       << <<105, 110, 102, 111, 114, 109, 97, 116, 105, 111, 110>>, <<1605, 1593, 1604, 1608, 1605, 1575, 1578>> >>,  \* information
       << <<105, 109, 112, 111, 114, 116, 97, 110, 116>>, <<1575, 1729, 1605>> >>,  \* important
       << <<109, 97, 105, 110>>, <<1576, 1606, 1740, 1575, 1583, 1740>> >>,  \* main
       << <<107, 101, 121>>, <<1705, 1604, 1740, 1583, 1740>> >>,  \* key
       << <<112, 111, 105, 110, 116>>, <<1606, 1705, 1578, 1729>> >>,  \* point
       << <<116, 101, 99, 104, 110, 111, 108, 111, 103, 121>>, <<1657, 1740, 1705, 1606, 1575, 1604, 1608, 1580, 1740>> >>,  \* technology
       << <<100, 101, 118, 101, 108, 111, 112, 109, 101, 110, 116>>, <<1578, 1585, 1602, 1740>> >> >>  \* development

\* dict[cleanWord] || word, where cleanWord = word.replace(/[.,!?;:()[\]{}'"]/g, '')
\* is the key of the i-th entry of dict
DictWord(dict, word) ==
    With(SelectSeq(word, LAMBDA c : c \notin {46, 44, 33, 63, 59, 58, 40, 41, 91, 93, 123, 125, 39, 34}),
         LAMBDA cleanWord :
            With(MinOr({i \in 1..Len(dict) : dict[i][1] = cleanWord}, 0),
                 LAMBDA i : IF i = 0 THEN word ELSE dict[i][2]))

\* text.toLowerCase().split(/\s+/).map(word => dict[cleanWord] || word).join(' ')
DictTranslate(dict, text) ==
    With(SplitSpace(ToLower(text)),
         LAMBDA words : Join([i \in 1..Len(words) |-> DictWord(dict, words[i])], <<32>>))

\* A translation that leaves every word as it is
untranslated(text) == IF IsStr(text) THEN Ok(JStr(ToLower(text.s))) ELSE Throw("TypeError")

\* fallbackTranslation(text) for any value: text.toLowerCase() of a value that
\* is no string is a TypeError
fallbackTranslation(text) ==
    IF IsStr(text) THEN Ok(JStr(DictTranslate(basicDict, text.s))) ELSE Throw("TypeError")

\* text.match(/[urdu]+[^\n]*/g): of each line that has one, from its first
\* Urdu character on
urduMatch(text) ==
    With(SelectSeq(SplitEach(text, 10), containsUrduScript),
         LAMBDA lines :
            [i \in 1..Len(lines) |->
                SubSeq(lines[i], FirstFrom(lines[i], 1, IsUrduChar), Len(lines[i]))])

\* { summary, keyPoints, summaryUrdu }, as texts:
\* urduMatch ? urduMatch.join(' ') : this.fallbackTranslation(basic.summary)
extractSummaryAndTranslationFromText(text) ==
    With(extractSummaryFromText(text),
         LAMBDA basic :
            [summary |-> basic.summary,
             keyPoints |-> basic.keyPoints,
             summaryUrdu |-> IF containsUrduScript(text) THEN Join(urduMatch(text), <<32>>)
                             ELSE DictTranslate(basicDict, basic.summary)])

\* cleanUrduTranslation(text) for any value: text.split of a value that is no
\* string is a TypeError. On a string,
\* if (!containsUrduScript(cleaned)) cleaned = normalizeUrduText(text)
cleanUrduTranslation(text) ==
    IF ~IsStr(text) THEN Throw("TypeError")
    ELSE Ok(JStr(postProcessUrduTranslation(
                     With(extractUrduText(text.s),
                          LAMBDA cleaned : IF ~containsUrduScript(cleaned)
                                           THEN normalizeUrduText(text.s)
                                           ELSE cleaned))))

\* text.split(/[.!?]+/).map(s => s.trim()).filter(s => s.length > 10)
longSentences(text) ==
    SelectSeq(TrimAll(SplitRunsBy(text, LAMBDA c : c \in {46, 33, 63})),
              LAMBDA sentence : Len(sentence) > 10)

\* A string[] as a value
StrArray(xs) == JArr([i \in 1..Len(xs) |-> JStr(xs[i])])

\* fallbackSummary(content), from the sentences.slice(0, 5)
fallbackSummary(content) ==
    With(Take(longSentences(content), 5),
         LAMBDA sentences :
            [summary |-> JStr(Join(sentences, <<46, 32>>) \o <<46>>),
             keyPoints |-> StrArray(Take(sentences, 3)),
             wordCount |-> Len(SplitSpace(content)),
             originalLength |-> Len(content)])

----------------------------------------------------------------------------
(* summarizer.ts: generateStaticSummary and extractKeyPoints               *)

\* content.replace(/\s+/g, ' ').replace(/[^\w\s.,!?;:()]/g, '').trim()
cleanContent(content) ==
    Trim(SelectSeq(CollapseSpace(content),
                   LAMBDA c : \/ IsLatin(c) \/ IsDigit(c) \/ c = 95 \/ IsSpace(c)
                              \/ c \in {46, 44, 33, 63, 59, 58, 40, 41}))

importantWords ==
    <<
       <<105, 109, 112, 111, 114, 116, 97, 110, 116>>,  \* important
       <<115, 105, 103, 110, 105, 102, 105, 99, 97, 110, 116>>,  \* significant
       <<107, 101, 121>>,  \* key
       <<109, 97, 105, 110>>,  \* main
       <<112, 114, 105, 109, 97, 114, 121>>,  \* primary
       <<101, 115, 115, 101, 110, 116, 105, 97, 108>>,  \* essential
       <<99, 114, 117, 99, 105, 97, 108>>,  \* crucial
       <<109, 97, 106, 111, 114>>,  \* major
       <<102, 117, 110, 100, 97, 109, 101, 110, 116, 97, 108>>,  \* fundamental
       <<99, 114, 105, 116, 105, 99, 97, 108>>,  \* critical
       <<118, 105, 116, 97, 108>>,  \* vital
       <<110, 101, 99, 101, 115, 115, 97, 114, 121>>,  \* necessary
       <<116, 104, 101, 114, 101, 102, 111, 114, 101>>,  \* therefore
       <<104, 111, 119, 101, 118, 101, 114>>,  \* however
       <<109, 111, 114, 101, 111, 118, 101, 114>>,  \* moreover
       <<102, 117, 114, 116, 104, 101, 114, 109, 111, 114, 101>>,  \* furthermore
       <<99, 111, 110, 115, 101, 113, 117, 101, 110, 116, 108, 121>>,  \* consequently
       <<114, 101, 115, 117, 108, 116>>,  \* result
       <<99, 111, 110, 99, 108, 117, 115, 105, 111, 110>>,  \* conclusion
       <<115, 117, 109, 109, 97, 114, 121>>,  \* summary
       <<102, 105, 110, 100, 105, 110, 103, 115>>,  \* findings
       <<100, 105, 115, 99, 111, 118, 101, 114, 101, 100>>,  \* discovered
       <<114, 101, 115, 101, 97, 114, 99, 104>>,  \* research
       <<115, 116, 117, 100, 121>>,  \* study
       <<97, 110, 97, 108, 121, 115, 105, 115>>,  \* analysis
       <<100, 97, 116, 97>>,  \* data
       <<101, 118, 105, 100, 101, 110, 99, 101>>,  \* evidence
       <<115, 104, 111, 119, 115>>,  \* shows
       <<114, 101, 118, 101, 97, 108, 115>>,  \* reveals
       <<105, 110, 100, 105, 99, 97, 116, 101, 115>>,  \* indicates
       <<115, 117, 103, 103, 101, 115, 116, 115>>,  \* suggests
       <<100, 101, 109, 111, 110, 115, 116, 114, 97, 116, 101, 115>>,  \* demonstrates
       <<112, 114, 111, 118, 101, 115>> >>  \* proves

\* The score of the sentence at 0-based index among n sentences;
\* index < n * 0.2 and index > n * 0.8 in integers; words are
\* sentence.split(/\s+/), sentence.match(/\d+/g) the maximal digit runs,
\* sentence.match(/[()[\]{}]/g) the brackets.
sentenceScore(sentence, index, n) ==
    (IF 5 * index < n THEN 3 ELSE 0)
    + (IF 5 * index > 4 * n THEN 2 ELSE 0)
    + (IF Len(SplitSpace(sentence)) \in 8..25 THEN 2 ELSE 0)
    + Cardinality({w \in 1..Len(importantWords) : Includes(ToLower(sentence), importantWords[w])})
    - (IF Cardinality({i \in 1..Len(sentence) :
                          IsDigit(sentence[i]) /\ (i = 1 \/ ~IsDigit(sentence[i - 1]))}) > 3
       THEN 1 ELSE 0)
    - (IF Cardinality({i \in 1..Len(sentence) : sentence[i] \in {40, 41, 91, 93, 123, 125}}) > 2
       THEN 1 ELSE 0)

\* Math.min(5, Math.ceil(n * 0.3))
summarySize(n) == MinOr({5, (3 * n + 9) \div 10}, 0)

\* sentences.map((sentence, index) => ({ sentence, score, index }))
scoredSentences(sentences) ==
    [i \in 1..Len(sentences) |->
        [sentence |-> sentences[i],
         score |-> sentenceScore(sentences[i], i - 1, Len(sentences)),
         index |-> i - 1]]

\* A sort that puts an item before the earlier items of the same score
InsertBeforeEqual(sorted, x) ==
    With(Cardinality({j \in 1..Len(sorted) : sorted[j].score - x.score > 0}),
         LAMBDA p : SubSeq(sorted, 1, p) \o <<x>> \o SubSeq(sorted, p + 1, Len(sorted)))

\* sort((a, b) => b.score - a.score): Array.prototype.sort is stable, so an
\* item goes behind the items before it that the comparator does not put
\* after it. sorted holds the items before x, sorted.
InsertByScore(sorted, x) ==
    With(Cardinality({j \in 1..Len(sorted) : sorted[j].score - x.score >= 0}),
         LAMBDA p : SubSeq(sorted, 1, p) \o <<x>> \o SubSeq(sorted, p + 1, Len(sorted)))

RECURSIVE sortByScore(_)
sortByScore(items) ==
    IF Len(items) = 0 THEN <<>>
    ELSE InsertByScore(sortByScore(SubSeq(items, 1, Len(items) - 1)), items[Len(items)])

\* sort((a, b) => a.index - b.index)
InsertByIndex(sorted, x) ==
    With(Cardinality({j \in 1..Len(sorted) : sorted[j].index - x.index <= 0}),
         LAMBDA p : SubSeq(sorted, 1, p) \o <<x>> \o SubSeq(sorted, p + 1, Len(sorted)))

RECURSIVE sortByIndex(_)
sortByIndex(items) ==
    IF Len(items) = 0 THEN <<>>
    ELSE InsertByIndex(sortByIndex(SubSeq(items, 1, Len(items) - 1)), items[Len(items)])

\* The 1-based positions of the sentences kept by
\* scoredSentences.sort(by score).slice(0, k).sort(by index)
topSentences(sentences) ==
    With(sortByIndex(Take(sortByScore(scoredSentences(sentences)), summarySize(Len(sentences)))),
         LAMBDA top : [i \in 1..Len(top) |-> top[i].index + 1])

\* s.replace(/\.\s*\./g, '.'), from index i on: a match starts at m
RECURSIVE CollapseDotsFrom(_, _)
CollapseDotsFrom(s, i) ==
    With(MinOr({m \in i..Len(s) : s[m] = 46 /\ OccursAt(s, <<46>>, FirstNonSpace(s, m + 1))}, 0),
         LAMBDA m : IF m = 0 THEN SubSeq(s, i, Len(s))
                    ELSE SubSeq(s, i, m) \o CollapseDotsFrom(s, FirstNonSpace(s, m + 1) + 1))

\* 'Unable to generate summary from the provided content.'
UnableFromContent ==
    <<85, 110, 97, 98, 108, 101, 32, 116, 111, 32, 103, 101, 110, 101, 114, 97, 116, 101,
      32, 115, 117, 109, 109, 97, 114, 121, 32, 102, 114, 111, 109, 32, 116, 104, 101, 32,
      112, 114, 111, 118, 105, 100, 101, 100, 32, 99, 111, 110, 116, 101, 110, 116, 46>>

\* The matches of bulletRegex and numberedRegex, /mark\s*([^stops]+)/g: capture
\* group 1 of each. After a mark that ends before index a, the group starts
\* after the longest run of whitespace that leaves it a character (0 if there
\* is none) and runs up to the next stop.
GroupStart(s, a, IsStop(_)) ==
    MaxOr({g \in a..FirstNonSpace(s, a) : g <= Len(s) /\ ~IsStop(s[g])}, 0)

\* [\u2022\u00B7\-\*] and [^\u2022\u00B7\-\*\n]
IsBulletStop(c) == c \in {8226, 183, 45, 42, 10}

\* [^\d\n]
IsDigitStop(c) == IsDigit(c) \/ c = 10

\* The start of the group of the bullet match that starts at i, 0 if none does.
bulletGroup(s, i) ==
    IF s[i] \in {8226, 183, 45, 42} THEN GroupStart(s, i + 1, IsBulletStop) ELSE 0

\* The same for /\d+[\.\)]\s*([^\d\n]+)/: the digits end before index d
numberedGroup(s, i) ==
    With(DigitsEnd(s, i),
         LAMBDA d : IF d > i /\ d <= Len(s) /\ s[d] \in {46, 41}
                    THEN GroupStart(s, d + 1, IsDigitStop) ELSE 0)

\* match[1] of the matches that bulletRegex.exec finds from index i on: the
\* next match starts at m, its group is s[g..e - 1]
RECURSIVE bulletMatches(_, _)
bulletMatches(s, i) ==
    With(MinOr({m \in i..Len(s) : bulletGroup(s, m) # 0}, 0),
         LAMBDA m :
            IF m = 0 THEN <<>>
            ELSE With(bulletGroup(s, m),
                      LAMBDA g : With(FirstFrom(s, g, IsBulletStop),
                                      LAMBDA e : <<SubSeq(s, g, e - 1)>> \o bulletMatches(s, e))))

RECURSIVE numberedMatches(_, _)
numberedMatches(s, i) ==
    With(MinOr({m \in i..Len(s) : numberedGroup(s, m) # 0}, 0),
         LAMBDA m :
            IF m = 0 THEN <<>>
            ELSE With(numberedGroup(s, m),
                      LAMBDA g : With(FirstFrom(s, g, IsDigitStop),
                                      LAMBDA e : <<SubSeq(s, g, e - 1)>> \o numberedMatches(s, e))))

keyPointWords ==
    <<
       <<107, 101, 121>>,  \* key
       <<105, 109, 112, 111, 114, 116, 97, 110, 116>>,  \* important
       <<109, 97, 105, 110>>,  \* main
       <<115, 105, 103, 110, 105, 102, 105, 99, 97, 110, 116>>,  \* significant
       <<101, 115, 115, 101, 110, 116, 105, 97, 108>>,  \* essential
       <<99, 114, 117, 99, 105, 97, 108>> >>  \* crucial

\* xs, or others if xs is empty: if (keyPoints.length === 0)
\* keyPoints.push(...others), and summary || '...'
OrIfEmpty(xs, others) == IF Len(xs) = 0 THEN others ELSE xs

\* The points of the lists, trimmed, with point.length > 10 && point.length < 150;
\* or else the sentences with a key-point word; or else the first sentences
extractKeyPoints(content, sentences) ==
    Take(OrIfEmpty(OrIfEmpty(SelectSeq(TrimAll(bulletMatches(content, 1)
                                             \o numberedMatches(content, 1)),
                                     LAMBDA point : Len(point) > 10 /\ Len(point) < 150),
                           Take(SelectSeq(sentences,
                                          LAMBDA sentence :
                                             \E w \in 1..Len(keyPointWords) :
                                                Includes(ToLower(sentence), keyPointWords[w])),
                                3)),
                  Take(sentences, 3)),
         5)

\* The summary made of the sentences at the positions top, with
\* topSentences.length > 0 && !last.sentence.endsWith('.') ? '.' : ''
summaryText(sentences, top) ==
    CollapseDotsFrom(Join([i \in 1..Len(top) |-> sentences[top[i]]], <<46, 32>>), 1)
    \o (IF Len(top) > 0 /\ ~OccursAt(sentences[top[Len(top)]], <<46>>, Len(sentences[top[Len(top)]]))
        THEN <<46>> ELSE <<>>)

\* generateStaticSummary from cleanContent and sentences
staticSummary(cleaned, sentences) ==
    [summary |-> JStr(OrIfEmpty(summaryText(sentences, topSentences(sentences)), UnableFromContent)),
     keyPoints |-> StrArray(extractKeyPoints(cleaned, sentences)),
     wordCount |-> Len(SplitSpace(cleaned)),
     originalLength |-> Len(cleaned)]

generateStaticSummary(content) ==
    With(cleanContent(content), LAMBDA cleaned : staticSummary(cleaned, longSentences(cleaned)))

----------------------------------------------------------------------------
(* gemini.ts: what GeminiService makes of the text the model returned      *)

\* generateSummary: parsedResponse. The inner try completes when JSON.parse
\* returns p and the "Basic validation" accepts it; reading a property of
\* null is a TypeError and ends it too. Then extractSummaryFromText is used.
parsedSummaryResponse(text) ==
    With(JSONparse(Trim(StripFencesFrom(text, 1))),
         LAMBDA p :
            IF /\ p.k = "ok"
               /\ CanRead(p.v)
               /\ Truthy(Member(p.v, KeySummary))
               /\ Member(p.v, KeyKeyPoints).t = "array"
            THEN p.v
            ELSE With(extractSummaryFromText(text),
                      LAMBDA r : JObj(<< <<KeySummary, JStr(r.summary)>>,
                                         <<KeyKeyPoints, StrArray(r.keyPoints)>> >>)))

\* { summary: parsedResponse.summary || 'Unable to generate summary',
\*   keyPoints: parsedResponse.keyPoints || [], wordCount, originalLength }
summaryOfParsed(content, parsedResponse) ==
    [summary |-> OrElse(Member(parsedResponse, KeySummary), JStr(UnableToGenerate)),
     keyPoints |-> OrElse(Member(parsedResponse, KeyKeyPoints), JArr(<<>>)),
     wordCount |-> Len(SplitSpace(content)),
     originalLength |-> Len(content)]

\* generateSummary: the value returned when generateContent returned text
summaryFromResponse(content, text) == summaryOfParsed(content, parsedSummaryResponse(text))

\* The substitution made for any issue at all
substitutesOnAnyIssue(validation) == ~validation.isValid

\* The substitution made for a translation that is too short, and for no other
substitutesWhenShort(validation) ==
    ~validation.isValid /\ \E i \in 1..Len(validation.issues) : validation.issues[i] = TooShort

\* !validation.isValid && validation.issues.includes(NoScript)
substitutes(validation) ==
    ~validation.isValid /\ \E i \in 1..Len(validation.issues) : validation.issues[i] = NoScript

\* translateToUrdu and generateSummaryAndTranslation: validate the cleaned
\* translation against the original and substitute the dictionary translation
\* on NoScript. original is any value: validateUrduTranslation calls
\* originalText.split, a TypeError unless it is a string. The result v comes
\* with what was decided: the issues (which the code logs) and whether the
\* substitution was made.
validatedTranslation(original, cleaned) ==
    IF ~IsStr(original) THEN Throw("TypeError")
    ELSE With(validateUrduTranslation(original.s, cleaned.s),
              LAMBDA validation :
                 [k |-> "ok",
                  v |-> IF substitutes(validation) THEN fallbackTranslation(original).v
                        ELSE cleaned,
                  original |-> original,
                  cleaned |-> cleaned,
                  issues |-> validation.issues,
                  substituted |-> substitutes(validation)])

TranslationResult(originalText, translatedText) ==
    [originalText |-> originalText, translatedText |-> translatedText, language |-> "urdu"]

\* translateToUrdu: the try block once generateContent returned raw
translationFromResponse(text, raw) ==
    With(validatedTranslation(text, cleanUrduTranslation(JStr(Trim(raw))).v),
         LAMBDA checked :
            IF checked.k = "throw" THEN checked
            ELSE [k |-> "ok", v |-> TranslationResult(text, checked.v), validation |-> checked])

\* translateToUrdu: the catch block
translationFallback(text) ==
    With(fallbackTranslation(text),
         LAMBDA t : IF t.k = "throw" THEN t ELSE Ok(TranslationResult(text, t.v)))

\* generateSummaryAndTranslation: parsedResponse
parsedCombinedResponse(text) ==
    With(JSONparse(Trim(StripFencesFrom(text, 1))),
         LAMBDA p :
            IF p.k = "ok" THEN p.v
            ELSE With(extractSummaryAndTranslationFromText(text),
                      LAMBDA r : JObj(<< <<KeySummary, JStr(r.summary)>>,
                                         <<KeyKeyPoints, StrArray(r.keyPoints)>>,
                                         <<KeySummaryUrdu, JStr(r.summaryUrdu)>> >>)))

\* The result whose originalText is the content summarized
combinedOfContent(content, parsedResponse, checked) ==
    IF checked.k = "throw" THEN checked
    ELSE [k |-> "ok",
          v |-> [summary |-> summaryOfParsed(content, parsedResponse),
                 translation |-> TranslationResult(JStr(content), checked.v)],
          validation |-> checked]

\* { summary, translation } from parsedResponse and the checked translation
combinedOfChecked(content, parsedResponse, checked) ==
    IF checked.k = "throw" THEN checked
    ELSE [k |-> "ok",
          v |-> [summary |-> summaryOfParsed(content, parsedResponse),
                 translation |->
                     TranslationResult(
                         OrElse(Member(parsedResponse, KeySummary), JStr(UnableToGenerate)),
                         checked.v)],
          validation |-> checked]

\* generateSummaryAndTranslation: the try block once generateContent returned
\* text; a TypeError leaves it for the catch block. From parsedResponse on:
\* cleanUrduTranslation(parsedResponse.summaryUrdu || 'Unable to translate'),
\* then validateUrduTranslation(parsedResponse.summary || '', urduTranslation)
\* and what follows it. Reading a property of null is a TypeError.
combinedFromResponse(content, text) ==
    With(parsedCombinedResponse(text),
         LAMBDA parsedResponse :
            IF ~CanRead(parsedResponse) THEN Throw("TypeError")
            ELSE With(cleanUrduTranslation(
                          OrElse(Member(parsedResponse, KeySummaryUrdu),
                                 JStr(UnableToTranslate))),
                      LAMBDA cleaned :
                         IF cleaned.k = "throw" THEN cleaned
                         ELSE combinedOfChecked(content, parsedResponse,
                                  validatedTranslation(
                                      OrElse(Member(parsedResponse, KeySummary), JStr(<<>>)),
                                      cleaned.v))))

----------------------------------------------------------------------------
(* translator.ts                                                           *)

englishToUrdu ==
    <<
       << <<116, 104, 101>>, <<1740, 1729>> >>,  \* the
       << <<97, 110, 100>>, <<1575, 1608, 1585>> >>,  \* and
       << <<105, 115>>, <<1729, 1746>> >>,  \* is
       << <<105, 110>>, <<1605, 1740, 1722>> >>,  \* in
       << <<116, 111>>, <<1705, 1608>> >>,  \* to
       << <<111, 102>>, <<1705, 1575>> >>,  \* of
       << <<97>>, <<1575, 1740, 1705>> >>,  \* a
       << <<116, 104, 97, 116>>, <<1740, 1729>> >>,  \* that
       << <<105, 116>>, <<1740, 1729>> >>,  \* it
       << <<119, 105, 116, 104>>, <<1705, 1746, 32, 1587, 1575, 1578, 1726>> >>,  \* with
       << <<102, 111, 114>>, <<1705, 1746, 32, 1604, 1740, 1746>> >>,  \* for
       << <<97, 115>>, <<1580, 1740, 1587, 1746>> >>,  \* as
       << <<119, 97, 115>>, <<1578, 1726, 1575>> >>,  \* was
       << <<111, 110>>, <<1662, 1585>> >>,  \* on
       << <<97, 114, 101>>, <<1729, 1740, 1722>> >>,  \* are
       << <<121, 111, 117>>, <<1570, 1662>> >>,  \* you
       << <<116, 104, 105, 115>>, <<1740, 1729>> >>,  \* this
       << <<98, 101>>, <<1729, 1608, 1606, 1575>> >>,  \* be
       << <<97, 116>>, <<1662, 1585>> >>,  \* at
       << <<98, 121>>, <<1705, 1746, 32, 1584, 1585, 1740, 1593, 1746>> >>,  \* by
       << <<110, 111, 116>>, <<1606, 1729, 1740, 1722>> >>,  \* not
       << <<111, 114>>, <<1740, 1575>> >>,  \* or
       << <<104, 97, 118, 101>>, <<1729, 1746>> >>,  \* have
       << <<102, 114, 111, 109>>, <<1587, 1746>> >>,  \* from
       << <<116, 104, 101, 121>>, <<1608, 1729>> >>,  \* they
       << <<119, 101>>, <<1729, 1605>> >>,  \* we
       << <<98, 117, 116>>, <<1604, 1740, 1705, 1606>> >>,  \* but
       << <<99, 97, 110>>, <<1705, 1585, 32, 1587, 1705, 1578, 1746, 32, 1729, 1740, 1722>> >>,  \* can
       << <<111, 117, 116>>, <<1576, 1575, 1729, 1585>> >>,  \* out
       << <<111, 116, 104, 101, 114>>, <<1583, 1608, 1587, 1585, 1746>> >>,  \* other
       << <<119, 101, 114, 101>>, <<1578, 1726, 1746>> >>,  \* were
       << <<97, 108, 108>>, <<1578, 1605, 1575, 1605>> >>,  \* all
       << <<116, 104, 101, 114, 101>>, <<1608, 1729, 1575, 1722>> >>,  \* there
       << <<119, 104, 101, 110>>, <<1580, 1576>> >>,  \* when
       << <<117, 112>>, <<1575, 1608, 1662, 1585>> >>,  \* up
       << <<117, 115, 101>>, <<1575, 1587, 1578, 1593, 1605, 1575, 1604>> >>,  \* use
       << <<121, 111, 117, 114>>, <<1570, 1662, 32, 1705, 1575>> >>,  \* your
       << <<104, 111, 119>>, <<1705, 1740, 1587, 1746>> >>,  \* how
       << <<111, 117, 114>>, <<1729, 1605, 1575, 1585, 1575>> >>,  \* our
       << <<105, 102>>, <<1575, 1711, 1585>> >>,  \* if
       << <<110, 111>>, <<1606, 1729, 1740, 1722>> >>,  \* no
       << <<104, 97, 100>>, <<1578, 1726, 1575>> >>,  \* had
       << <<119, 104, 97, 116>>, <<1705, 1740, 1575>> >>,  \* what
       << <<115, 111>>, <<1578, 1608>> >>,  \* so
       << <<97, 98, 111, 117, 116>>, <<1705, 1746, 32, 1576, 1575, 1585, 1746, 32, 1605, 1740, 1722>> >>,  \* about
       << <<116, 105, 109, 101>>, <<1608, 1602, 1578>> >>,  \* time
       << <<118, 101, 114, 121>>, <<1576, 1729, 1578>> >>,  \* very
       << <<119, 111, 117, 108, 100>>, <<1711, 1575>> >>,  \* would
       << <<104, 97, 115>>, <<1729, 1746>> >>,  \* has
       << <<109, 111, 114, 101>>, <<1586, 1740, 1575, 1583, 1729>> >>,  \* more
       << <<103, 111>>, <<1580, 1575, 1606, 1575>> >>,  \* go
       << <<115, 101, 101>>, <<1583, 1740, 1705, 1726, 1606, 1575>> >>,  \* see
       << <<109, 97, 107, 101>>, <<1576, 1606, 1575, 1606, 1575>> >>,  \* make
       << <<103, 101, 116>>, <<1604, 1740, 1606, 1575>> >>,  \* get
       << <<99, 111, 109, 101>>, <<1570, 1606, 1575>> >>,  \* come
       << <<107, 110, 111, 119>>, <<1580, 1575, 1606, 1606, 1575>> >>,  \* know
       << <<119, 111, 114, 107>>, <<1705, 1575, 1605>> >>,  \* work
       << <<112, 101, 111, 112, 108, 101>>, <<1604, 1608, 1711>> >>,  \* people
       << <<100, 97, 121>>, <<1583, 1606>> >>,  \* day
       << <<119, 97, 121>>, <<1591, 1585, 1740, 1602, 1729>> >>,  \* way
       << <<103, 111, 111, 100>>, <<1575, 1670, 1726, 1575>> >>,  \* good
       << <<110, 101, 119>>, <<1606, 1740, 1575>> >>,  \* new
       << <<102, 105, 114, 115, 116>>, <<1662, 1729, 1604, 1575>> >>,  \* first
       << <<103, 114, 101, 97, 116>>, <<1593, 1592, 1740, 1605>> >>,  \* great
       << <<116, 101, 99, 104, 110, 111, 108, 111, 103, 121>>, <<1657, 1740, 1705, 1606, 1575, 1604, 1608, 1580, 1740>> >>,  \* technology
       << <<98, 117, 115, 105, 110, 101, 115, 115>>, <<1705, 1575, 1585, 1608, 1576, 1575, 1585>> >>,  \* business
       << <<99, 111, 109, 112, 97, 110, 121>>, <<1705, 1605, 1662, 1606, 1740>> >>,  \* company
       << <<119, 111, 114, 108, 100>>, <<1583, 1606, 1740, 1575>> >>,  \* world
       << <<108, 105, 102, 101>>, <<1586, 1606, 1583, 1711, 1740>> >>,  \* life
       << <<115, 121, 115, 116, 101, 109>>, <<1606, 1592, 1575, 1605>> >>,  \* system
       << <<100, 101, 118, 101, 108, 111, 112, 109, 101, 110, 116>>, <<1578, 1585, 1602, 1740>> >>,  \* development
       << <<115, 111, 102, 116, 119, 97, 114, 101>>, <<1587, 1575, 1601, 1657, 32, 1608, 1740, 1574, 1585>> >>,  \* software
       << <<100, 97, 116, 97>>, <<1672, 1740, 1657, 1575>> >>,  \* data
       << <<105, 110, 102, 111, 114, 109, 97, 116, 105, 111, 110>>, <<1605, 1593, 1604, 1608, 1605, 1575, 1578>> >>,  \* information
       << <<115, 101, 114, 118, 105, 99, 101>>, <<1582, 1583, 1605, 1578>> >>,  \* service
       << <<109, 97, 110, 97, 103, 101, 109, 101, 110, 116>>, <<1575, 1606, 1578, 1592, 1575, 1605>> >>,  \* management
       << <<109, 97, 114, 107, 101, 116>>, <<1576, 1575, 1586, 1575, 1585>> >>,  \* market
       << <<117, 115, 101, 114>>, <<1589, 1575, 1585, 1601>> >>,  \* user
       << <<115, 111, 108, 117, 116, 105, 111, 110>>, <<1581, 1604>> >>,  \* solution
       << <<112, 114, 111, 99, 101, 115, 115>>, <<1593, 1605, 1604>> >>,  \* process
       << <<112, 114, 111, 106, 101, 99, 116>>, <<1605, 1606, 1589, 1608, 1576, 1729>> >>,  \* project
       << <<97, 112, 112, 108, 105, 99, 97, 116, 105, 111, 110>>, <<1575, 1662, 1604, 1740, 1705, 1740, 1588, 1606>> >>,  \* application
       << <<100, 105, 103, 105, 116, 97, 108>>, <<1672, 1740, 1580, 1740, 1657, 1604>> >>,  \* digital
       << <<111, 110, 108, 105, 110, 101>>, <<1570, 1606, 32, 1604, 1575, 1574, 1606>> >>,  \* online
       << <<105, 110, 116, 101, 114, 110, 101, 116>>, <<1575, 1606, 1657, 1585, 1606, 1740, 1657>> >>,  \* internet
       << <<119, 101, 98, 115, 105, 116, 101>>, <<1608, 1740, 1576, 32, 1587, 1575, 1574, 1657>> >>,  \* website
       << <<99, 111, 109, 112, 117, 116, 101, 114>>, <<1705, 1605, 1662, 1740, 1608, 1657, 1585>> >>,  \* computer
       << <<109, 111, 98, 105, 108, 101>>, <<1605, 1608, 1576, 1575, 1574, 1604>> >>,  \* mobile
       << <<112, 108, 97, 116, 102, 111, 114, 109>>, <<1662, 1604, 1740, 1657, 32, 1601, 1575, 1585, 1605>> >>,  \* platform
       << <<110, 101, 116, 119, 111, 114, 107>>, <<1606, 1740, 1657, 32, 1608, 1585, 1705>> >>,  \* network
       << <<115, 101, 99, 117, 114, 105, 116, 121>>, <<1587, 1740, 1705, 1740, 1608, 1585, 1657, 1740>> >>,  \* security
       << <<102, 117, 116, 117, 114, 101>>, <<1605, 1587, 1578, 1602, 1576, 1604>> >>,  \* future
       << <<105, 110, 110, 111, 118, 97, 116, 105, 111, 110>>, <<1580, 1583, 1578>> >>,  \* innovation
       << <<97, 114, 116, 105, 102, 105, 99, 105, 97, 108>>, <<1605, 1589, 1606, 1608, 1593, 1740>> >>,  \* artificial
       << <<105, 110, 116, 101, 108, 108, 105, 103, 101, 110, 99, 101>>, <<1584, 1729, 1575, 1606, 1578>> >>,  \* intelligence
       << <<109, 97, 99, 104, 105, 110, 101>>, <<1605, 1588, 1740, 1606>> >>,  \* machine
       << <<108, 101, 97, 114, 110, 105, 110, 103>>, <<1587, 1740, 1705, 1726, 1606, 1575>> >>,  \* learning
       << <<97, 108, 103, 111, 114, 105, 116, 104, 109>>, <<1575, 1604, 1711, 1608, 1585, 1578, 1726, 1605>> >>,  \* algorithm
       << <<112, 114, 111, 103, 114, 97, 109, 109, 105, 110, 103>>, <<1662, 1585, 1608, 1711, 1585, 1575, 1605, 1606, 1711>> >>,  \* programming
       << <<99, 111, 100, 101>>, <<1705, 1608, 1672>> >>,  \* code
       << <<100, 97, 116, 97, 98, 97, 115, 101>>, <<1672, 1740, 1657, 1575, 1576, 1740, 1587>> >>,  \* database
       << <<97, 110, 97, 108, 121, 115, 105, 115>>, <<1578, 1580, 1586, 1740, 1729>> >>,  \* analysis
       << <<100, 101, 115, 105, 103, 110>>, <<1672, 1740, 1586, 1575, 1574, 1606>> >>,  \* design
       << <<99, 111, 110, 116, 101, 110, 116>>, <<1605, 1608, 1575, 1583>> >>,  \* content
       << <<109, 101, 100, 105, 97>>, <<1605, 1740, 1672, 1740, 1575>> >>,  \* media
       << <<99, 111, 109, 109, 117, 110, 105, 99, 97, 116, 105, 111, 110>>, <<1585, 1575, 1576, 1591, 1729>> >>,  \* communication
       << <<101, 120, 112, 101, 114, 105, 101, 110, 99, 101>>, <<1578, 1580, 1585, 1576, 1729>> >>,  \* experience
       << <<112, 101, 114, 102, 111, 114, 109, 97, 110, 99, 101>>, <<1705, 1575, 1585, 1705, 1585, 1583, 1711, 1740>> >>,  \* performance
       << <<113, 117, 97, 108, 105, 116, 121>>, <<1605, 1593, 1740, 1575, 1585>> >>,  \* quality
       << <<115, 117, 112, 112, 111, 114, 116>>, <<1587, 1662, 1608, 1585, 1657>> >>,  \* support
       << <<112, 114, 111, 100, 117, 99, 116>>, <<1662, 1585, 1608, 1672, 1705, 1657>> >>,  \* product
       << <<99, 117, 115, 116, 111, 109, 101, 114>>, <<1705, 1587, 1657, 1605, 1585>> >>,  \* customer
       << <<101, 100, 117, 99, 97, 116, 105, 111, 110>>, <<1578, 1593, 1604, 1740, 1605>> >>,  \* education
       << <<114, 101, 115, 101, 97, 114, 99, 104>>, <<1578, 1581, 1602, 1740, 1602>> >>,  \* research
       << <<115, 99, 105, 101, 110, 99, 101>>, <<1587, 1575, 1574, 1606, 1587>> >>,  \* science
       << <<104, 101, 97, 108, 116, 104>>, <<1589, 1581, 1578>> >>,  \* health
       << <<109, 101, 100, 105, 99, 97, 108>>, <<1591, 1576, 1740>> >>,  \* medical
       << <<101, 99, 111, 110, 111, 109, 105, 99>>, <<1575, 1602, 1578, 1589, 1575, 1583, 1740>> >>,  \* economic
       << <<102, 105, 110, 97, 110, 99, 105, 97, 108>>, <<1605, 1575, 1604, 1740>> >>,  \* financial
       << <<112, 111, 108, 105, 116, 105, 99, 97, 108>>, <<1587, 1740, 1575, 1587, 1740>> >>,  \* political
       << <<115, 111, 99, 105, 97, 108>>, <<1587, 1605, 1575, 1580, 1740>> >>,  \* social
       << <<101, 110, 118, 105, 114, 111, 110, 109, 101, 110, 116, 97, 108>>, <<1605, 1575, 1581, 1608, 1604, 1740, 1575, 1578, 1740>> >>,  \* environmental
       << <<103, 108, 111, 98, 97, 108>>, <<1593, 1575, 1604, 1605, 1740>> >>,  \* global
       << <<105, 110, 116, 101, 114, 110, 97, 116, 105, 111, 110, 97, 108>>, <<1576, 1740, 1606, 32, 1575, 1604, 1575, 1602, 1608, 1575, 1605, 1740>> >>,  \* international
       << <<110, 97, 116, 105, 111, 110, 97, 108>>, <<1602, 1608, 1605, 1740>> >>,  \* national
       << <<108, 111, 99, 97, 108>>, <<1605, 1602, 1575, 1605, 1740>> >>,  \* local
       << <<99, 111, 109, 109, 117, 110, 105, 116, 121>>, <<1705, 1605, 1740, 1608, 1606, 1657, 1740>> >>,  \* community
       << <<111, 114, 103, 97, 110, 105, 122, 97, 116, 105, 111, 110>>, <<1578, 1606, 1592, 1740, 1605>> >>,  \* organization
       << <<103, 111, 118, 101, 114, 110, 109, 101, 110, 116>>, <<1581, 1705, 1608, 1605, 1578>> >>,  \* government
       << <<112, 117, 98, 108, 105, 99>>, <<1593, 1608, 1575, 1605, 1740>> >>,  \* public
       << <<112, 114, 105, 118, 97, 116, 101>>, <<1606, 1580, 1740>> >>,  \* private
       << <<112, 101, 114, 115, 111, 110, 97, 108>>, <<1584, 1575, 1578, 1740>> >>,  \* personal
       << <<112, 114, 111, 102, 101, 115, 115, 105, 111, 110, 97, 108>>, <<1662, 1740, 1588, 1729, 32, 1608, 1585, 1575, 1606, 1729>> >>,  \* professional
       << <<105, 110, 100, 117, 115, 116, 114, 121>>, <<1589, 1606, 1593, 1578>> >>,  \* industry
       << <<101, 110, 101, 114, 103, 121>>, <<1578, 1608, 1575, 1606, 1575, 1574, 1740>> >>,  \* energy
       << <<101, 110, 118, 105, 114, 111, 110, 109, 101, 110, 116>>, <<1605, 1575, 1581, 1608, 1604>> >>,  \* environment
       << <<99, 108, 105, 109, 97, 116, 101>>, <<1570, 1576, 32, 1608, 32, 1729, 1608, 1575>> >>,  \* climate
       << <<99, 104, 97, 110, 103, 101>>, <<1578, 1576, 1583, 1740, 1604, 1740>> >>,  \* change
       << <<103, 114, 111, 119, 116, 104>>, <<1578, 1585, 1602, 1740>> >>,  \* growth
       << <<105, 109, 112, 97, 99, 116>>, <<1575, 1579, 1585>> >>,  \* impact
       << <<99, 104, 97, 108, 108, 101, 110, 103, 101>>, <<1670, 1740, 1604, 1606, 1580>> >>,  \* challenge
       << <<111, 112, 112, 111, 114, 116, 117, 110, 105, 116, 121>>, <<1605, 1608, 1602, 1593>> >>,  \* opportunity
       << <<115, 116, 114, 97, 116, 101, 103, 121>>, <<1581, 1705, 1605, 1578, 32, 1593, 1605, 1604, 1740>> >>,  \* strategy
       << <<112, 108, 97, 110, 110, 105, 110, 103>>, <<1605, 1606, 1589, 1608, 1576, 1729, 32, 1576, 1606, 1583, 1740>> >>,  \* planning
       << <<105, 109, 112, 108, 101, 109, 101, 110, 116, 97, 116, 105, 111, 110>>, <<1606, 1575, 1601, 1584, 32, 1705, 1585, 1606, 1575>> >> >>  \* implementation

\* translateToUrduStatic(text) for any value
translateToUrduStatic(text) ==
    IF IsStr(text) THEN Ok(JStr(DictTranslate(englishToUrdu, text.s))) ELSE Throw("TypeError")

----------------------------------------------------------------------------
(* scraper.ts and the URL check of the route                               *)

\* 'Untitled Blog Post'
UntitledBlogPost ==
    <<85, 110, 116, 105, 116, 108, 101, 100, 32, 66, 108, 111, 103, 32, 80, 111, 115, 116>>

\* A page is what cheerio selects from the document axios.get returned: the
\* text of <title>, of the first <h1>, and of the first content selector that
\* matches (or the paragraphs). The content scrapeBlogContent extracts is
\* content.replace(/\s+/g, ' ').replace(/\n+/g, '\n').trim()
extractedContent(page) ==
    Trim(With(CollapseSpace(Trim(page.text)),
              LAMBDA s : SelectSeq([i \in 1..Len(s) |->
                                       IF s[i] = 10 /\ i > 1 /\ s[i - 1] = 10 THEN 0 ELSE s[i]],
                                   LAMBDA c : c # 0)))

\* scrapeBlogContent without the check of the length of the content
scrapedAnyLength(page, url) ==
    Ok([title |-> OrIfEmpty(Trim(page.title), OrIfEmpty(Trim(page.h1), UntitledBlogPost)),
        content |-> extractedContent(page),
        url |-> url])

\* scrapeBlogContent once axios.get returned the page: the content is checked,
\* if (!content || content.length < 50), and the title is
\* $('title').text().trim() || $('h1').first().text().trim() || 'Untitled Blog Post'
scrapedContent(page, url) ==
    IF Len(extractedContent(page)) = 0 \/ Len(extractedContent(page)) < 50
    THEN Throw("Could not extract sufficient content from the webpage")
    ELSE Ok([title |-> OrIfEmpty(Trim(page.title), OrIfEmpty(Trim(page.h1), UntitledBlogPost)),
             content |-> extractedContent(page),
             url |-> url])

\* new URL(url) returns, for a text without base: the text has a scheme, and a
\* host if the scheme is http or https. (Of the WHATWG parser: the scheme state
\* and the empty-host failure; hosts are letters, digits, '-' and '.'.) The
\* scheme is s[1..e - 1] and ':' follows it; the host s[h..x - 1] follows the
\* slashes, and ends the text or is followed by one of / ? # :
URLParses(text) ==
    With(Trim(text),
         LAMBDA s :
            With(FirstFrom(s, 1, LAMBDA c : ~(IsLatin(c) \/ IsDigit(c) \/ c \in {43, 45, 46})),
                 LAMBDA e :
                    With(FirstFrom(s, e + 1, LAMBDA c : c \notin {47, 92}),
                         LAMBDA h :
                            With(FirstFrom(s, h, LAMBDA c : ~(IsLatin(c) \/ IsDigit(c) \/ c \in {45, 46})),
                                 LAMBDA x :
                                    /\ Len(s) > 0
                                    /\ IsLatin(s[1])
                                    /\ e <= Len(s)
                                    /\ s[e] = 58
                                    /\ ToLower(SubSeq(s, 1, e - 1))
                                          \in {<<104, 116, 116, 112>>, <<104, 116, 116, 112, 115>>} =>
                                           /\ x > h
                                           /\ x > Len(s) \/ s[x] \in {47, 63, 35, 58}))))

----------------------------------------------------------------------------
(* The collaborators' answers that the model draws from.                   *)

\* The texts generateContent returns.
ReplyCatalogue ==
    <<
       \* ```json\n{"summary": "Markets grew.", "keyPoints": ["Growth"], "summaryUrdu": "\u0628\u0627\u0632\u0627\u0631 \u0628\u0691\u06BE \u06AF\u06CC\u0627\u06D4"}\n```
       <<96, 96, 96, 106, 115, 111, 110, 10, 123, 34, 115, 117, 109, 109, 97, 114, 121, 34, 58,
           32, 34, 77, 97, 114, 107, 101, 116, 115, 32, 103, 114, 101, 119, 46, 34, 44, 32, 34,
           107, 101, 121, 80, 111, 105, 110, 116, 115, 34, 58, 32, 91, 34, 71, 114, 111, 119,
           116, 104, 34, 93, 44, 32, 34, 115, 117, 109, 109, 97, 114, 121, 85, 114, 100, 117, 34,
           58, 32, 34, 1576, 1575, 1586, 1575, 1585, 32, 1576, 1681, 1726, 32, 1711, 1740, 1575,
           1748, 34, 125, 10, 96, 96, 96>>,
       \* null
       <<110, 117, 108, 108>>,
       \* {"summary":5,"keyPoints":[]}
       <<123, 34, 115, 117, 109, 109, 97, 114, 121, 34, 58, 53, 44, 34, 107, 101, 121, 80, 111,
           105, 110, 116, 115, 34, 58, 91, 93, 125>>,
       \* \u062C\u06CC
       <<1580, 1740>>,
       \* Here is the summary: Markets grew.\n- point one
       <<72, 101, 114, 101, 32, 105, 115, 32, 116, 104, 101, 32, 115, 117, 109, 109, 97, 114,
           121, 58, 32, 77, 97, 114, 107, 101, 116, 115, 32, 103, 114, 101, 119, 46, 10, 45, 32,
           112, 111, 105, 110, 116, 32, 111, 110, 101>>,
       \* \u06CC\u06C1 data is very important for all people
       <<1740, 1729, 32, 100, 97, 116, 97, 32, 105, 115, 32, 118, 101, 114, 121, 32, 105, 109,
           112, 111, 114, 116, 97, 110, 116, 32, 102, 111, 114, 32, 97, 108, 108, 32, 112, 101,
           111, 112, 108, 101>>,
       \* {"summary": "Markets grew.", "keyPoints": [], "summaryUrdu": "Markets grew a lot"}
       <<123, 34, 115, 117, 109, 109, 97, 114, 121, 34, 58, 32, 34, 77, 97, 114, 107, 101, 116,
           115, 32, 103, 114, 101, 119, 46, 34, 44, 32, 34, 107, 101, 121, 80, 111, 105, 110,
           116, 115, 34, 58, 32, 91, 93, 44, 32, 34, 115, 117, 109, 109, 97, 114, 121, 85, 114,
           100, 117, 34, 58, 32, 34, 77, 97, 114, 107, 101, 116, 115, 32, 103, 114, 101, 119, 32,
           97, 32, 108, 111, 116, 34, 125>>,
       \* {"summary": "Markets grew.", "keyPoints": "none", "summaryUrdu": 7}
       <<123, 34, 115, 117, 109, 109, 97, 114, 121, 34, 58, 32, 34, 77, 97, 114, 107, 101, 116,
           115, 32, 103, 114, 101, 119, 46, 34, 44, 32, 34, 107, 101, 121, 80, 111, 105, 110,
           116, 115, 34, 58, 32, 34, 110, 111, 110, 101, 34, 44, 32, 34, 115, 117, 109, 109, 97,
           114, 121, 85, 114, 100, 117, 34, 58, 32, 55, 125>> >>

\* What cheerio selects from the pages axios.get returns.
PageCatalogue ==
    <<
       \* title 'Blog', h1 '', text 'The data is important.  Research shows growth here.\n\nIt was a good day.'
       [title |-> <<66, 108, 111, 103>>, h1 |-> <<>>,
        text |-> <<84, 104, 101, 32, 100, 97, 116, 97, 32, 105, 115, 32, 105, 109, 112, 111, 114,
                   116, 97, 110, 116, 46, 32, 32, 82, 101, 115, 101, 97, 114, 99, 104, 32, 115,
                   104, 111, 119, 115, 32, 103, 114, 111, 119, 116, 104, 32, 104, 101, 114, 101,
                   46, 10, 10, 73, 116, 32, 119, 97, 115, 32, 97, 32, 103, 111, 111, 100, 32,
                   100, 97, 121, 46>>],
       \* title '', h1 '', text 'Too short.'
       [title |-> <<>>, h1 |-> <<>>,
        text |-> <<84, 111, 111, 32, 115, 104, 111, 114, 116, 46>>],
       \* title '', h1 'Notes', text 'Key facts: - first bullet item here. 2) numbered item long enough! Is it (really) so?'
       [title |-> <<>>, h1 |-> <<78, 111, 116, 101, 115>>,
        text |-> <<75, 101, 121, 32, 102, 97, 99, 116, 115, 58, 32, 45, 32, 102, 105, 114, 115,
                   116, 32, 98, 117, 108, 108, 101, 116, 32, 105, 116, 101, 109, 32, 104, 101,
                   114, 101, 46, 32, 50, 41, 32, 110, 117, 109, 98, 101, 114, 101, 100, 32, 105,
                   116, 101, 109, 32, 108, 111, 110, 103, 32, 101, 110, 111, 117, 103, 104, 33,
                   32, 73, 115, 32, 105, 116, 32, 40, 114, 101, 97, 108, 108, 121, 41, 32, 115,
                   111, 63>>] >>

\* The contents generateSummary is called with.
ContentCatalogue ==
    <<
       \* The data is important. Research shows growth here. It was a good day.
       <<84, 104, 101, 32, 100, 97, 116, 97, 32, 105, 115, 32, 105, 109, 112, 111, 114, 116,
           97, 110, 116, 46, 32, 82, 101, 115, 101, 97, 114, 99, 104, 32, 115, 104, 111, 119,
           115, 32, 103, 114, 111, 119, 116, 104, 32, 104, 101, 114, 101, 46, 32, 73, 116, 32,
           119, 97, 115, 32, 97, 32, 103, 111, 111, 100, 32, 100, 97, 121, 46>>,
       \* Key facts: - first bullet item here. 2) numbered item long enough! Is it (really) so?
       <<75, 101, 121, 32, 102, 97, 99, 116, 115, 58, 32, 45, 32, 102, 105, 114, 115, 116, 32,
           98, 117, 108, 108, 101, 116, 32, 105, 116, 101, 109, 32, 104, 101, 114, 101, 46, 32,
           50, 41, 32, 110, 117, 109, 98, 101, 114, 101, 100, 32, 105, 116, 101, 109, 32, 108,
           111, 110, 103, 32, 101, 110, 111, 117, 103, 104, 33, 32, 73, 115, 32, 105, 116, 32,
           40, 114, 101, 97, 108, 108, 121, 41, 32, 115, 111, 63>> >>

\* The texts translateToUrdu is called with.
TextCatalogue ==
    <<
       \* The data is important.
       <<84, 104, 101, 32, 100, 97, 116, 97, 32, 105, 115, 32, 105, 109, 112, 111, 114, 116,
           97, 110, 116, 46>>,
       \* Markets grew.
       <<77, 97, 114, 107, 101, 116, 115, 32, 103, 114, 101, 119, 46>> >>

\* The url member of the request bodies, when it is a string.
UrlCatalogue ==
    <<
       <<>>,
       \* not a url
       <<110, 111, 116, 32, 97, 32, 117, 114, 108>>,
       \* http://
       <<104, 116, 116, 112, 58, 47, 47>>,
       \* https://blog.example/post
       <<104, 116, 116, 112, 115, 58, 47, 47, 98, 108, 111, 103, 46, 101, 120, 97, 109, 112,
           108, 101, 47, 112, 111, 115, 116>>,
       \* //blog.example/post
       <<47, 47, 98, 108, 111, 103, 46, 101, 120, 97, 109, 112, 108, 101, 47, 112, 111, 115,
           116>> >>

\* How many entries of each catalogue the collaborators and callers draw from.
NumReplies == 7
NumPages == 2
NumContents == 1
NumTexts == 1
NumUrls == 4

----------------------------------------------------------------------------
(* The program as a state machine. One request or call is followed from    *)
(* its entry point to its result. An async function is a frame on the      *)
(* stack; it runs from one await to the next in one step.                  *)

VARIABLES
    available,   \* GeminiService.isAvailable(): set when the module is loaded
    stack,       \* the frames of the async functions that have not returned
    ctl,         \* what happens next: see below
    log,         \* what was called, awaited and returned so far, in order
    mongo,       \* the documents of blog_posts
    supabase,    \* the rows of blog_summaries
    response,    \* what the entry point returned to its caller
    lastCall,    \* RateLimiter.lastCall of the one instance
    now,         \* Date.now()
    throttled    \* the calls of throttle that have not returned

\* The state of the RateLimiter instance and its clock
limiter == <<lastCall, now, throttled>>

vars == <<available, stack, ctl, log, mongo, supabase, response, lastCall, now, throttled>>

\* ctl.k is "idle" before the call, "run" when the top frame is to run from
\* its position, "await" while it waits for a collaborator (ctl.on), "ret"
\* when the awaited promise has settled with ctl.r, "done" after the entry
\* point has returned.
Frame(fn, at, l) == [fn |-> fn, at |-> at, l |-> l]

Top == stack[Len(stack)]

Running(fn, at) == ctl.k = "run" /\ Top.fn = fn /\ Top.at = at

Resumed(fn, at) == ctl.k = "ret" /\ Top.fn = fn /\ Top.at = at

SetTop(at, l) == [stack EXCEPT ![Len(stack)] = Frame(Top.fn, at, l)]

\* await callee(arg), to continue at position at with the locals l
Call(at, l, callee, arg) ==
    /\ stack' = Append(SetTop(at, l), Frame(callee, "start", [arg |-> arg]))
    /\ ctl' = [k |-> "run"]
    /\ log' = Append(log, [e |-> "call", fn |-> callee, arg |-> arg])
    /\ UNCHANGED <<available, mongo, supabase, response, limiter>>

\* await a collaborator; event records the request made of it
Await(at, l, on, event) ==
    /\ stack' = SetTop(at, l)
    /\ ctl' = [k |-> "await", on |-> on]
    /\ log' = Append(log, event)
    /\ UNCHANGED <<available, mongo, supabase, response, limiter>>

\* return or throw: outcome settles the promise of the top frame, after the
\* events the function logged on the way
Return(events, outcome) ==
    /\ stack' = SubSeq(stack, 1, Len(stack) - 1)
    /\ ctl' = IF Len(stack) = 1 THEN [k |-> "done"] ELSE [k |-> "ret", r |-> outcome]
    /\ response' = IF Len(stack) = 1 THEN outcome ELSE response
    /\ log' = log \o events \o <<[e |-> "return", fn |-> Top.fn, r |-> outcome]>>
    /\ UNCHANGED <<available, mongo, supabase, limiter>>

\* The collaborator awaited settles with outcome.
Settle(on, event, outcome) ==
    /\ ctl.k = "await"
    /\ ctl.on = on
    /\ ctl' = [k |-> "ret", r |-> outcome]
    /\ log' = Append(log, event)
    /\ UNCHANGED <<available, stack, response, limiter>>

\* Date.now() when the first call is made: lastCall = 0 is further back than
\* any minInterval
StartTime == 3

Init ==
    /\ available \in BOOLEAN
    /\ stack = <<>>
    /\ ctl = [k |-> "idle"]
    /\ log = <<>>
    /\ mongo = <<>>
    /\ supabase = <<>>
    /\ response = [k |-> "none"]
    /\ lastCall = 0
    /\ now = StartTime
    /\ throttled = <<>>

----------------------------------------------------------------------------
(* The entry points                                                        *)

KeyUrl == <<117, 114, 108>>                                                  \* url
KeyUseOptimized == <<117, 115, 101, 79, 112, 116, 105, 109, 105, 122, 101, 100>>  \* useOptimized

\* What request.json() returns when the body is JSON: null, or an object with
\* the members url and useOptimized
Bodies ==
    {JNull}
    \cup {JObj(<< <<KeyUrl, u>>, <<KeyUseOptimized, m>> >>) :
             u \in {JUndefined, JNull} \cup {JStr(UrlCatalogue[i]) : i \in 1..NumUrls},
             m \in {JUndefined, JBool(TRUE), JBool(FALSE)}}

Enter(fn, arg) ==
    /\ ctl.k = "idle"
    /\ stack' = <<Frame(fn, "start", [arg |-> arg])>>
    /\ ctl' = [k |-> "run"]
    /\ log' = <<[e |-> "call", fn |-> fn, arg |-> arg]>>
    /\ UNCHANGED <<available, mongo, supabase, response, limiter>>

\* What await request.json() gives: a body, or a rejection when the body is no JSON
RequestJson == {Ok(body) : body \in Bodies} \cup {Throw("SyntaxError")}

\* A client posts to /api/summarize.
RequestPOST == \E json \in RequestJson : Enter("POST", json)

\* summarizer.generateSummary(content) is called.
RequestSummary == \E i \in 1..NumContents : Enter("generateSummary", ContentCatalogue[i])

\* translator.translateToUrdu(text) is called.
Texts == {JStr(TextCatalogue[i]) : i \in 1..NumTexts}

RequestTranslation == \E text \in Texts : Enter("translateToUrdu", text)

----------------------------------------------------------------------------
(* The collaborators                                                       *)

\* axios.get(url) returns a page, or fails.
AxiosSettles ==
    /\ \/ \E i \in 1..NumPages :
             Settle("axios", [e |-> "axios-returned", page |-> PageCatalogue[i]],
                    Ok(PageCatalogue[i]))
       \/ Settle("axios", [e |-> "axios-failed"], Throw("AxiosError"))
    /\ UNCHANGED <<mongo, supabase>>

\* model.generateContent(prompt) returns a text, or raises.
AIReturns ==
    /\ \E text \in {ReplyCatalogue[i] : i \in 1..NumReplies} :
          Settle("ai", [e |-> "ai-returned", text |-> text], Ok(text))
    /\ UNCHANGED <<mongo, supabase>>

AIRaises ==
    /\ Settle("ai", [e |-> "ai-raised"], Throw("GoogleGenerativeAIError"))
    /\ UNCHANGED <<mongo, supabase>>

\* The timer of setTimeout fires.
TimerFires ==
    /\ Settle("timer", [e |-> "timer-fired"], Ok(JUndefined))
    /\ UNCHANGED <<mongo, supabase>>

\* clientPromise settles: connected, or not.
MongoConnectSettles ==
    /\ \/ Settle("clientPromise", [e |-> "mongo-connected"], Ok(JUndefined))
       \/ Settle("clientPromise", [e |-> "mongo-unreachable"], Throw("MongoNetworkError"))
    /\ UNCHANGED <<mongo, supabase>>

\* collection.insertOne(blogPost) stores the document and returns its id, or fails.
MongoInsertSettles ==
    \/ /\ Settle("insertOne", [e |-> "mongo-inserted"], Ok([insertedId |-> Len(mongo) + 1]))
       /\ mongo' = Append(mongo, Top.l.blogPost)
       /\ UNCHANGED supabase
    \/ /\ Settle("insertOne", [e |-> "mongo-rejected"], Throw("MongoServerError"))
       /\ UNCHANGED <<mongo, supabase>>

\* supabase.from('blog_summaries').insert([summaryRecord]).select() stores the
\* row and returns { data, error: null }, returns { data: null, error }, or rejects.
SupabaseInsertSettles ==
    \/ /\ Settle("insert", [e |-> "supabase-inserted"],
                 Ok([data |-> <<[id |-> Len(supabase) + 1]>>, error |-> JNull]))
       /\ supabase' = Append(supabase, Top.l.summaryRecord)
       /\ UNCHANGED mongo
    \/ /\ Settle("insert", [e |-> "supabase-error"], Ok([data |-> <<>>, error |-> JObj(<<>>)]))
       /\ UNCHANGED <<mongo, supabase>>
    \/ /\ Settle("insert", [e |-> "supabase-rejected"], Throw("FetchError"))
       /\ UNCHANGED <<mongo, supabase>>

----------------------------------------------------------------------------
(* scraper.ts: scrapeBlogContent(url)                                      *)

scrapeStart ==
    /\ Running("scrapeBlogContent", "start")
    /\ Await("fetched", Top.l, "axios", [e |-> "axios-get", url |-> Top.l.arg])

scrapeFetched ==
    /\ Resumed("scrapeBlogContent", "fetched")
    /\ IF ctl.r.k = "throw"
       THEN Return(<<>>, Throw("Failed to fetch webpage"))
       ELSE Return(<<>>, scrapedContent(ctl.r.v, Top.l.arg))

----------------------------------------------------------------------------
(* gemini.ts: the methods of GeminiService                                 *)

NotAvailable == Throw("Gemini API is not available. Please check your API key.")

\* What the code logs of a validation, and what it then used.
Validated(fn, checked) ==
    [e |-> "validated", fn |-> fn,
     original |-> checked.original, cleaned |-> checked.cleaned,
     issues |-> checked.issues, substituted |-> checked.substituted, out |-> checked.v]

\* generateSummary(content)
geminiSummaryStart ==
    /\ Running("GeminiService.generateSummary", "start")
    /\ IF ~available
       THEN Return(<<>>, NotAvailable)
       ELSE Await("generated", Top.l, "ai", [e |-> "ai", op |-> "summarize", arg |-> Top.l.arg])

geminiSummaryGenerated ==
    /\ Resumed("GeminiService.generateSummary", "generated")
    /\ IF ctl.r.k = "throw"
       THEN Return(<<[e |-> "fallbackSummary"]>>, Ok(fallbackSummary(Top.l.arg)))
       ELSE Return(<<>>, Ok(summaryFromResponse(Top.l.arg, ctl.r.v)))

\* translateToUrdu(text)
geminiTranslateStart ==
    /\ Running("GeminiService.translateToUrdu", "start")
    /\ IF ~available
       THEN Return(<<>>, NotAvailable)
       ELSE Await("generated", Top.l, "ai", [e |-> "ai", op |-> "translate", arg |-> Top.l.arg])

geminiTranslateGenerated ==
    /\ Resumed("GeminiService.translateToUrdu", "generated")
    /\ LET made == IF ctl.r.k = "throw" THEN ctl.r
                   ELSE translationFromResponse(Top.l.arg, ctl.r.v)
       IN  IF made.k = "throw"
           THEN Return(<<[e |-> "fallbackTranslation"]>>, translationFallback(Top.l.arg))
           ELSE Return(<<Validated(Top.fn, made.validation)>>, Ok(made.v))

DefaultMaxRetries == 2

\* translateToUrduWithRetry(text, maxRetries = 2): fallbackTranslation after the loop
retryExhausted ==
    Return(<<[e |-> "fallbackTranslation"]>>, translationFallback(Top.l.arg))

\* The maxRetries of a call: the argument, or the default when there is none.
maxRetriesOf(l) == IF "maxRetries" \in DOMAIN l THEN l.maxRetries ELSE DefaultMaxRetries

attemptLocals(l, attempt) ==
    [arg |-> l.arg, attempt |-> attempt, maxRetries |-> maxRetriesOf(l)]

\* 1000 * attempt
retryWait(attempt) == 1000 * attempt

retryStart ==
    /\ Running("translateToUrduWithRetry", "start")
    /\ IF 1 <= maxRetriesOf(Top.l)
       THEN Call("attempted", attemptLocals(Top.l, 1),
                 "GeminiService.translateToUrdu", Top.l.arg)
       ELSE retryExhausted

retryAttempted ==
    /\ Resumed("translateToUrduWithRetry", "attempted")
    /\ IF ctl.r.k = "ok" THEN Return(<<>>, ctl.r)
       ELSE IF Top.l.attempt < Top.l.maxRetries
            THEN Await("waited", Top.l, "timer",
                       [e |-> "setTimeout", ms |-> retryWait(Top.l.attempt)])
       ELSE retryExhausted

retryWaited ==
    /\ Resumed("translateToUrduWithRetry", "waited")
    /\ IF Top.l.attempt + 1 <= Top.l.maxRetries
       THEN Call("attempted", attemptLocals(Top.l, Top.l.attempt + 1),
                 "GeminiService.translateToUrdu", Top.l.arg)
       ELSE retryExhausted

\* generateSummaryAndTranslation(content)
combinedStart ==
    /\ Running("GeminiService.generateSummaryAndTranslation", "start")
    /\ IF ~available
       THEN Return(<<>>, NotAvailable)
       ELSE Await("generated", Top.l, "ai", [e |-> "ai", op |-> "combined", arg |-> Top.l.arg])

combinedGenerated ==
    /\ Resumed("GeminiService.generateSummaryAndTranslation", "generated")
    /\ LET made == IF ctl.r.k = "throw" THEN ctl.r
                   ELSE combinedFromResponse(Top.l.arg, ctl.r.v)
       IN  IF made.k = "throw"
           THEN Call("summarized", Top.l, "GeminiService.generateSummary", Top.l.arg)
           ELSE Return(<<Validated(Top.fn, made.validation)>>, Ok(made.v))

\* The catch block translating the content instead of the summary
combinedTranslatesContent ==
    /\ Resumed("GeminiService.generateSummaryAndTranslation", "summarized")
    /\ IF ctl.r.k = "throw" THEN Return(<<>>, ctl.r)
       ELSE Call("translated", [arg |-> Top.l.arg, summary |-> ctl.r.v],
                 "GeminiService.translateToUrdu", JStr(Top.l.arg))

combinedSummarized ==
    /\ Resumed("GeminiService.generateSummaryAndTranslation", "summarized")
    /\ IF ctl.r.k = "throw" THEN Return(<<>>, ctl.r)
       ELSE Call("translated", [arg |-> Top.l.arg, summary |-> ctl.r.v],
                 "GeminiService.translateToUrdu", ctl.r.v.summary)

combinedTranslated ==
    /\ Resumed("GeminiService.generateSummaryAndTranslation", "translated")
    /\ IF ctl.r.k = "throw" THEN Return(<<>>, ctl.r)
       ELSE Return(<<>>, Ok([summary |-> Top.l.summary, translation |-> ctl.r.v]))

----------------------------------------------------------------------------
(* summarizer.ts: generateSummary(content)                                 *)

summaryStart ==
    /\ Running("generateSummary", "start")
    /\ Call("tried", Top.l, "GeminiService.generateSummary", Top.l.arg)

\* generateSummary without its catch block: what geminiService.generateSummary
\* threw reaches the caller
summaryUncaught ==
    /\ Resumed("generateSummary", "tried")
    /\ Return(<<>>, ctl.r)

summaryTried ==
    /\ Resumed("generateSummary", "tried")
    /\ IF ctl.r.k = "ok" THEN Return(<<>>, ctl.r)
       ELSE Return(<<[e |-> "generateStaticSummary"]>>, Ok(generateStaticSummary(Top.l.arg)))

----------------------------------------------------------------------------
(* translator.ts: translateToUrdu(text)                                    *)

translateStart ==
    /\ Running("translateToUrdu", "start")
    /\ Call("tried", Top.l, "translateToUrduWithRetry", Top.l.arg)

translateTried ==
    /\ Resumed("translateToUrdu", "tried")
    /\ IF ctl.r.k = "ok" THEN Return(<<>>, Ok(ctl.r.v.translatedText))
       ELSE Return(<<[e |-> "translateToUrduStatic"]>>, translateToUrduStatic(Top.l.arg))

----------------------------------------------------------------------------
(* database.ts: DatabaseService. The arguments are                         *)
(* [scrapedContent, summaryResult, summaryUrdu]; the dates are left out.   *)

blogPost(arg) ==
    [title |-> arg.scrapedContent.title,
     content |-> arg.scrapedContent.content,
     url |-> arg.scrapedContent.url,
     summary |-> arg.summaryResult.summary,
     summaryUrdu |-> arg.summaryUrdu,
     keyPoints |-> arg.summaryResult.keyPoints,
     wordCount |-> arg.summaryResult.wordCount,
     originalLength |-> arg.summaryResult.originalLength]

summaryRecord(arg) ==
    [title |-> arg.scrapedContent.title,
     summary |-> arg.summaryResult.summary,
     summary_urdu |-> arg.summaryUrdu,
     url |-> arg.scrapedContent.url,
     word_count |-> arg.summaryResult.wordCount,
     original_length |-> arg.summaryResult.originalLength]

\* saveBlogToMongoDB: what it returns once insertOne settled with reply
savedToMongoDB(reply) ==
    IF reply.k = "throw" THEN Throw("Failed to save blog post to MongoDB")
    ELSE Ok(JStr(<<48 + reply.v.insertedId>>))

\* saveSummaryToSupabase as a best-effort save: no failure is thrown
savedToSupabaseAnyway(reply) == Ok(JNum(0))

\* saveSummaryToSupabase: what it returns once the insert settled with reply;
\* its own error and the TypeError of data[0].id are caught and thrown again
savedToSupabase(reply) ==
    IF reply.k = "throw" \/ Truthy(reply.v.error) \/ Len(reply.v.data) = 0
    THEN Throw("Failed to save summary to Supabase")
    ELSE Ok(JNum(reply.v.data[1].id))

mongoStart ==
    /\ Running("saveBlogToMongoDB", "start")
    /\ Await("connected", Top.l, "clientPromise", [e |-> "mongo-connect"])

mongoConnected ==
    /\ Resumed("saveBlogToMongoDB", "connected")
    /\ IF ctl.r.k = "throw" THEN Return(<<>>, savedToMongoDB(ctl.r))
       ELSE Await("inserted", [arg |-> Top.l.arg, blogPost |-> blogPost(Top.l.arg)],
                  "insertOne", [e |-> "insertOne"])

mongoInserted ==
    /\ Resumed("saveBlogToMongoDB", "inserted")
    /\ Return(<<>>, savedToMongoDB(ctl.r))

supabaseStart ==
    /\ Running("saveSummaryToSupabase", "start")
    /\ Await("inserted", [arg |-> Top.l.arg, summaryRecord |-> summaryRecord(Top.l.arg)],
             "insert", [e |-> "insert"])

supabaseInserted ==
    /\ Resumed("saveSummaryToSupabase", "inserted")
    /\ Return(<<>>, savedToSupabase(ctl.r))

----------------------------------------------------------------------------
(* route.ts: POST /api/summarize                                           *)

\* NextResponse.json(body, { status })
Json(status, body) == [status |-> status, body |-> body]

\* The catch block of POST
Failed(error) ==
    Json(500, [error |-> "Failed to process blog post", details |-> error.e])

\* The body of the response after both saves
Summarized(l, supabaseId) ==
    [success |-> TRUE,
     data |-> [title |-> l.scrapedContent.title,
               url |-> l.scrapedContent.url,
               summary |-> l.summaryResult.summary,
               summaryUrdu |-> l.summaryUrdu,
               keyPoints |-> l.summaryResult.keyPoints,
               wordCount |-> l.summaryResult.wordCount,
               originalLength |-> l.summaryResult.originalLength,
               mongoId |-> l.mongoId,
               supabaseId |-> supabaseId,
               aiPowered |-> TRUE,
               optimizedMode |-> l.useOptimized]]

\* The checks of url without any of them: every url is passed on
urlUnchecked(url) == [k |-> "none"]

\* The checks of url: the response returned for a url that fails them.
\* new URL(url) takes the string of url and throws unless it parses.
urlRejection(url) ==
    IF ~Truthy(url) THEN Ok(Json(400, [error |-> "URL is required"]))
    ELSE IF ~(IsStr(url) /\ URLParses(url.s))
         THEN Ok(Json(400, [error |-> "Invalid URL format"]))
    ELSE [k |-> "none"]

\* const { url, useOptimized = true } = await request.json(), and the checks of url
POSTStart ==
    /\ Running("POST", "start")
    /\ LET body == Top.l.arg
           url == Member(body.v, KeyUrl)
           given == Member(body.v, KeyUseOptimized)
           useOptimized == IF given = JUndefined THEN JBool(TRUE) ELSE given
       IN  IF body.k = "throw" THEN Return(<<>>, Ok(Failed(body)))
           ELSE IF ~CanRead(body.v) THEN Return(<<>>, Ok(Failed(Throw("TypeError"))))
           ELSE IF urlRejection(url).k = "ok" THEN Return(<<>>, urlRejection(url))
           ELSE Call("scraped", [url |-> url, useOptimized |-> useOptimized],
                     "scrapeBlogContent", url)

\* Step 1 done: the combined operation, or the separate ones
POSTScraped ==
    /\ Resumed("POST", "scraped")
    /\ LET l == [useOptimized |-> Top.l.useOptimized, scrapedContent |-> ctl.r.v]
       IN  IF ctl.r.k = "throw" THEN Return(<<>>, Ok(Failed(ctl.r)))
           ELSE IF Truthy(Top.l.useOptimized)
                THEN Call("combined", l, "GeminiService.generateSummaryAndTranslation",
                          ctl.r.v.content)
           ELSE Call("summarized", l, "generateSummary", ctl.r.v.content)

\* saveBlogToMongoDB(scrapedContent, summaryResult, summaryUrdu)
Save(l, summaryResult, summaryUrdu) ==
    Call("mongo",
         [useOptimized |-> l.useOptimized, scrapedContent |-> l.scrapedContent,
          summaryResult |-> summaryResult, summaryUrdu |-> summaryUrdu],
         "saveBlogToMongoDB",
         [scrapedContent |-> l.scrapedContent,
          summaryResult |-> summaryResult, summaryUrdu |-> summaryUrdu])

POSTCombined ==
    /\ Resumed("POST", "combined")
    /\ IF ctl.r.k = "throw"
       THEN Call("summarized", Top.l, "generateSummary", Top.l.scrapedContent.content)
       ELSE Save(Top.l, ctl.r.v.summary, ctl.r.v.translation.translatedText)

POSTSummarized ==
    /\ Resumed("POST", "summarized")
    /\ IF ctl.r.k = "throw" THEN Return(<<>>, Ok(Failed(ctl.r)))
       ELSE Call("translated",
                 [useOptimized |-> Top.l.useOptimized,
                  scrapedContent |-> Top.l.scrapedContent, summaryResult |-> ctl.r.v],
                 "translateToUrdu", ctl.r.v.summary)

POSTTranslated ==
    /\ Resumed("POST", "translated")
    /\ IF ctl.r.k = "throw" THEN Return(<<>>, Ok(Failed(ctl.r)))
       ELSE Save(Top.l, Top.l.summaryResult, ctl.r.v)

\* The Supabase write begun whatever saveBlogToMongoDB returned
POSTMongoIgnored ==
    /\ Resumed("POST", "mongo")
    /\ Call("supabase",
            [useOptimized |-> Top.l.useOptimized, scrapedContent |-> Top.l.scrapedContent,
             summaryResult |-> Top.l.summaryResult, summaryUrdu |-> Top.l.summaryUrdu,
             mongoId |-> JUndefined],
            "saveSummaryToSupabase",
            [scrapedContent |-> Top.l.scrapedContent,
             summaryResult |-> Top.l.summaryResult, summaryUrdu |-> Top.l.summaryUrdu])

POSTMongo ==
    /\ Resumed("POST", "mongo")
    /\ IF ctl.r.k = "throw" THEN Return(<<>>, Ok(Failed(ctl.r)))
       ELSE Call("supabase",
                 [useOptimized |-> Top.l.useOptimized, scrapedContent |-> Top.l.scrapedContent,
                  summaryResult |-> Top.l.summaryResult, summaryUrdu |-> Top.l.summaryUrdu,
                  mongoId |-> ctl.r.v],
                 "saveSummaryToSupabase",
                 [scrapedContent |-> Top.l.scrapedContent,
                  summaryResult |-> Top.l.summaryResult, summaryUrdu |-> Top.l.summaryUrdu])

POSTSupabase ==
    /\ Resumed("POST", "supabase")
    /\ IF ctl.r.k = "throw" THEN Return(<<>>, Ok(Failed(ctl.r)))
       ELSE Return(<<>>, Ok(Json(200, Summarized(Top.l, ctl.r.v))))

----------------------------------------------------------------------------
(* GET /api/health                                                         *)

\* 'This is a test content for health check.'
HealthContent ==
    <<84, 104, 105, 115, 32, 105, 115, 32, 97, 32, 116, 101, 115, 116, 32, 99, 111, 110, 116, 101, 110, 116, 32, 102, 111, 114, 32, 104, 101, 97, 108, 116, 104, 32, 99, 104, 101, 99, 107, 46>>

KeyLength == <<108, 101, 110, 103, 116, 104>>  \* length

\* testResult.summary.length > 0: the length of a string is its number of
\* characters, of an array its number of elements; a number and a boolean
\* have none, and undefined > 0 is false. An object has the member it was
\* given, compared as a number when it is one.
LengthPositive(v) ==
    CASE v.t = "string" -> Len(v.s) > 0
      [] v.t = "array" -> Len(v.xs) > 0
      [] v.t = "object" -> Member(v, KeyLength).t = "number" /\ Member(v, KeyLength).n > 0
      [] OTHER -> FALSE

\* The body of the response of GET, without its timestamp
Health(connections, geminiStatus) ==
    [success |-> TRUE,
     connections |-> [mongodb |-> connections.mongodb, supabase |-> connections.supabase,
                      gemini |-> geminiStatus],
     status |-> IF connections.mongodb /\ connections.supabase /\ geminiStatus
                THEN "healthy" ELSE "partial",
     services |-> [mongodb |-> IF connections.mongodb THEN "connected" ELSE "disconnected",
                   supabase |-> IF connections.supabase THEN "connected" ELSE "disconnected",
                   gemini |-> IF geminiStatus THEN "connected" ELSE "disconnected"]]

\* A client gets /api/health.
RequestGET == Enter("GET", JUndefined)

\* databaseService.testConnections() catches what its two tests throw and
\* returns what each of them found.
Connections == {Ok([mongodb |-> m, supabase |-> s]) : m, s \in BOOLEAN}

TestConnectionsSettles ==
    /\ \E results \in Connections :
          Settle("testConnections", [e |-> "connections-tested"], results)
    /\ UNCHANGED <<mongo, supabase>>

\* const connections = await databaseService.testConnections()
GETStart ==
    /\ Running("GET", "start")
    /\ Await("connections", Top.l, "testConnections", [e |-> "testConnections"])

\* await geminiService.generateSummary('This is a test content for health check.')
GETConnected ==
    /\ Resumed("GET", "connections")
    /\ Call("probed", [connections |-> ctl.r.v], "GeminiService.generateSummary", HealthContent)

\* geminiStatus = testResult.summary.length > 0, or false in the catch block;
\* then the response
GETProbed ==
    /\ Resumed("GET", "probed")
    /\ LET geminiStatus == IF ctl.r.k = "throw" THEN FALSE
                           ELSE LengthPositive(ctl.r.v.summary)
       IN  Return(<<>>, Ok(Json(200, Health(Top.l.connections, geminiStatus))))

----------------------------------------------------------------------------
Next ==
    \/ RequestPOST
    \/ RequestSummary
    \/ RequestTranslation
    \/ AxiosSettles
    \/ AIReturns
    \/ AIRaises
    \/ TimerFires
    \/ MongoConnectSettles
    \/ MongoInsertSettles
    \/ SupabaseInsertSettles
    \/ scrapeStart
    \/ scrapeFetched
    \/ geminiSummaryStart
    \/ geminiSummaryGenerated
    \/ geminiTranslateStart
    \/ geminiTranslateGenerated
    \/ retryStart
    \/ retryAttempted
    \/ retryWaited
    \/ combinedStart
    \/ combinedGenerated
    \/ combinedSummarized
    \/ combinedTranslated
    \/ summaryStart
    \/ summaryTried
    \/ translateStart
    \/ translateTried
    \/ mongoStart
    \/ mongoConnected
    \/ mongoInserted
    \/ supabaseStart
    \/ supabaseInserted
    \/ POSTStart
    \/ POSTScraped
    \/ POSTCombined
    \/ POSTSummarized
    \/ POSTTranslated
    \/ POSTMongo
    \/ POSTSupabase
    \/ RequestGET
    \/ TestConnectionsSettles
    \/ GETStart
    \/ GETConnected
    \/ GETProbed

Spec == Init /\ [][Next]_vars

----------------------------------------------------------------------------
(* translateToUrduWithRetry(text, maxRetries) called with a maxRetries of  *)
(* its own                                                                 *)

\* The largest maxRetries a call is made with
NumRetries == 4

RequestRetry ==
    \E text \in Texts, n \in 0..NumRetries :
        /\ ctl.k = "idle"
        /\ stack' = <<Frame("translateToUrduWithRetry", "start",
                            [arg |-> text, maxRetries |-> n])>>
        /\ ctl' = [k |-> "run"]
        /\ log' = <<[e |-> "call", fn |-> "translateToUrduWithRetry", arg |-> text,
                     maxRetries |-> n]>>
        /\ UNCHANGED <<available, mongo, supabase, response, limiter>>

BackoffNext ==
    \/ RequestRetry
    \/ AIReturns
    \/ AIRaises
    \/ TimerFires
    \/ geminiTranslateStart
    \/ geminiTranslateGenerated
    \/ retryStart
    \/ retryAttempted
    \/ retryWaited

BackoffSpec == Init /\ [][BackoffNext]_vars

----------------------------------------------------------------------------
(* utils.ts: RetryHandler.retry(fn, maxRetries, delayMs). What fn throws   *)
(* is [isError, of]: whether it is an instance of Error, and the           *)
(* invocation that threw it.                                               *)

\* new Error('Unknown error'): an Error that no invocation threw
UnknownError == [isError |-> TRUE, of |-> -1]

\* The lastError of the mutation that keeps what was thrown as it is
thrownAsIs(error) == error

\* error instanceof Error ? error : new Error('Unknown error')
lastErrorOf(error) == IF error.isError THEN error ELSE UnknownError

\* Math.pow(2, i)
RECURSIVE MathPow2(_)
MathPow2(i) == IF i = 0 THEN 1 ELSE 2 * MathPow2(i - 1)

\* The values of delayMs a call is made with
Delays == {100, 1000}

RequestRetryHandler ==
    \E maxRetries \in -1..NumRetries, delayMs \in Delays :
        /\ ctl.k = "idle"
        /\ stack' = <<Frame("RetryHandler.retry", "start",
                            [maxRetries |-> maxRetries, delayMs |-> delayMs, i |-> 0])>>
        /\ ctl' = [k |-> "run"]
        /\ log' = <<[e |-> "call", fn |-> "RetryHandler.retry",
                     maxRetries |-> maxRetries, delayMs |-> delayMs]>>
        /\ UNCHANGED <<available, mongo, supabase, response, limiter>>

\* fn() settles: it returns a value, or throws an Error or something else.
FnSettles ==
    /\ \/ Settle("fn", [e |-> "fn-returned", of |-> Top.l.i], Ok([of |-> Top.l.i]))
       \/ \E isError \in BOOLEAN :
             Settle("fn", [e |-> "fn-threw", of |-> Top.l.i, isError |-> isError],
                    Throw([isError |-> isError, of |-> Top.l.i]))
    /\ UNCHANGED <<mongo, supabase>>

\* for (let i = 0; i <= maxRetries; i++): the test, then await fn(), or the
\* throw lastError! after the loop
handlerLoop(l) ==
    IF l.i <= l.maxRetries
    THEN Await("invoked", l, "fn", [e |-> "fn", i |-> l.i])
    ELSE Return(<<>>, Throw(IF "lastError" \in DOMAIN l THEN l.lastError ELSE JUndefined))

handlerStart ==
    /\ Running("RetryHandler.retry", "start")
    /\ handlerLoop(Top.l)

handlerInvoked ==
    /\ Resumed("RetryHandler.retry", "invoked")
    /\ IF ctl.r.k = "ok" THEN Return(<<>>, ctl.r)
       ELSE IF Top.l.i = Top.l.maxRetries
            THEN Return(<<>>, Throw(lastErrorOf(ctl.r.e)))
       ELSE Await("waited",
                  [maxRetries |-> Top.l.maxRetries, delayMs |-> Top.l.delayMs, i |-> Top.l.i,
                   lastError |-> lastErrorOf(ctl.r.e)],
                  "timer", [e |-> "setTimeout", ms |-> Top.l.delayMs * MathPow2(Top.l.i)])

handlerWaited ==
    /\ Resumed("RetryHandler.retry", "waited")
    /\ handlerLoop([Top.l EXCEPT !.i = @ + 1])

RetryNext ==
    \/ RequestRetryHandler
    \/ FnSettles
    \/ TimerFires
    \/ handlerStart
    \/ handlerInvoked
    \/ handlerWaited

RetrySpec == Init /\ [][RetryNext]_vars

----------------------------------------------------------------------------
(* The functions of the modules, called one at a time. A call is made on   *)
(* the state after construction and its result is what the caller gets.    *)

\* The texts the functions are called with.
Samples ==
    <<
       \* Here is the summary: Markets grew.\n- Point one\n- Point two
       <<72, 101, 114, 101, 32, 105, 115, 32, 116, 104, 101, 32, 115, 117, 109, 109,
           97, 114, 121, 58, 32, 77, 97, 114, 107, 101, 116, 115, 32, 103, 114, 101,
           119, 46, 10, 45, 32, 80, 111, 105, 110, 116, 32, 111, 110, 101, 10, 45, 32,
           80, 111, 105, 110, 116, 32, 116, 119, 111>>,
       \* Technology is advancing.
       <<84, 101, 99, 104, 110, 111, 108, 111, 103, 121, 32, 105, 115, 32, 97, 100,
           118, 97, 110, 99, 105, 110, 103, 46>>,
       \* the data is important
       <<116, 104, 101, 32, 100, 97, 116, 97, 32, 105, 115, 32, 105, 109, 112, 111,
           114, 116, 97, 110, 116>>,
       \* 1. ab cd. ef gh. ij
       <<49, 46, 32, 97, 98, 32, 99, 100, 46, 32, 101, 102, 32, 103, 104, 46, 32, 105,
           106>>,
       \* 1) first item here 2) second item here 3) third item here 4) fourth item here 5) fifth item here 6) sixth item here
       <<49, 41, 32, 102, 105, 114, 115, 116, 32, 105, 116, 101, 109, 32, 104, 101,
           114, 101, 32, 50, 41, 32, 115, 101, 99, 111, 110, 100, 32, 105, 116, 101,
           109, 32, 104, 101, 114, 101, 32, 51, 41, 32, 116, 104, 105, 114, 100, 32,
           105, 116, 101, 109, 32, 104, 101, 114, 101, 32, 52, 41, 32, 102, 111, 117,
           114, 116, 104, 32, 105, 116, 101, 109, 32, 104, 101, 114, 101, 32, 53, 41,
           32, 102, 105, 102, 116, 104, 32, 105, 116, 101, 109, 32, 104, 101, 114, 101,
           32, 54, 41, 32, 115, 105, 120, 116, 104, 32, 105, 116, 101, 109, 32, 104,
           101, 114, 101>>,
       \* Markets grew.
       <<77, 97, 114, 107, 101, 116, 115, 32, 103, 114, 101, 119, 46>>,
       \* markets grew.
       <<109, 97, 114, 107, 101, 116, 115, 32, 103, 114, 101, 119, 46>>,
       \* \u0628\u0627\u0632\u0627\u0631 \u0628\u0691\u06BE \u06AF\u06CC\u0627\u06D4
       <<1576, 1575, 1586, 1575, 1585, 32, 1576, 1681, 1726, 32, 1711, 1740, 1575,
           1748>>,
       \* Hello World
       <<72, 101, 108, 108, 111, 32, 87, 111, 114, 108, 100>> >>

\* The words the other texts are made of: the empty word puts two spaces side
\* by side, or one at an end.
Vocabulary ==
    <<
       \* The
       <<84, 104, 101>>,
       \* data
       <<100, 97, 116, 97>>,
       \* important.
       <<105, 109, 112, 111, 114, 116, 97, 110, 116, 46>>,
       \* (empty)
       <<>>,
       \* 1)
       <<49, 41>>,
       \* \u06CC\u06C1
       <<1740, 1729>> >>

\* How many entries of Samples and of Vocabulary are used, and how many words
\* a text made of them has at most.
NumSamples == 8
NumWords == 5
MaxWords == 3

\* Samples, and the words of Vocabulary joined by single spaces
UnitTexts ==
    {Samples[i] : i \in 1..NumSamples}
    \cup UNION {{Join(ws, <<32>>) : ws \in [1..n -> {Vocabulary[i] : i \in 1..NumWords}]} :
                  n \in 0..MaxWords}

\* The sentences the documents are made of.
SentenceCatalogue ==
    <<
       \* Markets were calm all week
       <<77, 97, 114, 107, 101, 116, 115, 32, 119, 101, 114, 101, 32, 99, 97, 108, 109, 32, 97, 108, 108, 32, 119, 101, 101, 107>>,
       \* Prices rose again last month
       <<80, 114, 105, 99, 101, 115, 32, 114, 111, 115, 101, 32, 97, 103, 97, 105, 110, 32, 108, 97, 115, 116, 32, 109, 111, 110, 116, 104>>,
       \* The data shows growth here
       <<84, 104, 101, 32, 100, 97, 116, 97, 32, 115, 104, 111, 119, 115, 32, 103, 114, 111, 119, 116, 104, 32, 104, 101, 114, 101>>,
       \* Prices of all the goods we buy rose again
       <<80, 114, 105, 99, 101, 115, 32, 111, 102, 32, 97, 108, 108, 32, 116, 104, 101, 32, 103, 111, 111, 100, 115, 32, 119, 101, 32, 98, 117, 121, 32, 114, 111, 115, 101, 32, 97, 103, 97, 105, 110>> >>

\* The numbers of sentences of the longer documents.
LengthCatalogue == <<5, 7, 10, 17, 20, 14>>

\* How many entries of SentenceCatalogue and of LengthCatalogue are used, and
\* how many sentences a document made of every choice of sentences has at most.
NumSentences == 3
NumLengths == 5
MaxSentences == 4

\* The documents, each sentence followed by a period: every choice of one to
\* MaxSentences sentences, and the longer ones, which take the sentences in turn
Documents ==
    UNION {{Join(ss, <<46, 32>>) \o <<46>> : ss \in [1..n -> {SentenceCatalogue[i] : i \in 1..NumSentences}]} :
             n \in 1..MaxSentences}
    \cup {Join([i \in 1..LengthCatalogue[k] |-> SentenceCatalogue[(i % NumSentences) + 1]], <<46, 32>>) \o <<46>> :
             k \in 1..NumLengths}

\* The JSON texts generateContent returns.
JsonCatalogue ==
    <<
       \* {"summary":"Markets grew.","keyPoints":"none","summaryUrdu":"\u0628\u0627\u0632\u0627\u0631 \u0628\u0691\u06BE \u06AF\u06CC\u0627\u06D4"}
       <<123, 34, 115, 117, 109, 109, 97, 114, 121, 34, 58, 34, 77, 97, 114, 107, 101, 116,
         115, 32, 103, 114, 101, 119, 46, 34, 44, 34, 107, 101, 121, 80, 111, 105, 110,
         116, 115, 34, 58, 34, 110, 111, 110, 101, 34, 44, 34, 115, 117, 109, 109, 97,
         114, 121, 85, 114, 100, 117, 34, 58, 34, 1576, 1575, 1586, 1575, 1585, 32,
         1576, 1681, 1726, 32, 1711, 1740, 1575, 1748, 34, 125>>,
       \* {"keyPoints":["Growth"],"summaryUrdu":"\u0628\u0627\u0632\u0627\u0631 \u0628\u0691\u06BE \u06AF\u06CC\u0627\u06D4"}
       <<123, 34, 107, 101, 121, 80, 111, 105, 110, 116, 115, 34, 58, 91, 34, 71, 114, 111,
         119, 116, 104, 34, 93, 44, 34, 115, 117, 109, 109, 97, 114, 121, 85, 114, 100,
         117, 34, 58, 34, 1576, 1575, 1586, 1575, 1585, 32, 1576, 1681, 1726, 32, 1711,
         1740, 1575, 1748, 34, 125>>,
       \* {"summary":"Markets grew.","keyPoints":[1],"summaryUrdu":"\u0628\u0627\u0632\u0627\u0631 \u0628\u0691\u06BE \u06AF\u06CC\u0627\u06D4"}
       <<123, 34, 115, 117, 109, 109, 97, 114, 121, 34, 58, 34, 77, 97, 114, 107, 101, 116,
         115, 32, 103, 114, 101, 119, 46, 34, 44, 34, 107, 101, 121, 80, 111, 105, 110,
         116, 115, 34, 58, 91, 49, 93, 44, 34, 115, 117, 109, 109, 97, 114, 121, 85,
         114, 100, 117, 34, 58, 34, 1576, 1575, 1586, 1575, 1585, 32, 1576, 1681, 1726,
         32, 1711, 1740, 1575, 1748, 34, 125>>,
       \* {"summary":"Markets grew.","keyPoints":["Growth"],"summaryUrdu":"\u0628\u0627\u0632\u0627\u0631 \u0628\u0691\u06BE \u06AF\u06CC\u0627\u06D4"}
       <<123, 34, 115, 117, 109, 109, 97, 114, 121, 34, 58, 34, 77, 97, 114, 107, 101, 116,
         115, 32, 103, 114, 101, 119, 46, 34, 44, 34, 107, 101, 121, 80, 111, 105, 110,
         116, 115, 34, 58, 91, 34, 71, 114, 111, 119, 116, 104, 34, 93, 44, 34, 115,
         117, 109, 109, 97, 114, 121, 85, 114, 100, 117, 34, 58, 34, 1576, 1575, 1586,
         1575, 1585, 32, 1576, 1681, 1726, 32, 1711, 1740, 1575, 1748, 34, 125>>,
       \* {"summary":"","keyPoints":[]}
       <<123, 34, 115, 117, 109, 109, 97, 114, 121, 34, 58, 34, 34, 44, 34, 107, 101, 121, 80,
         111, 105, 110, 116, 115, 34, 58, 91, 93, 125>> >>

\* How many entries of JsonCatalogue are used.
NumJson == 4

\* The texts generateContent returns: JSON, and the samples
AITexts == {JsonCatalogue[i] : i \in 1..NumJson} \cup {Samples[i] : i \in 1..NumSamples}

\* fn(arg) is called and returns, or throws: r
Applied(fn, arg, r) ==
    /\ log' = <<[e |-> "call", fn |-> fn, arg |-> arg], [e |-> "return", fn |-> fn, r |-> r]>>
    /\ response' = r
    /\ ctl' = [k |-> "done"]
    /\ UNCHANGED <<available, stack, mongo, supabase, limiter>>

\* validateUrduTranslation(originalText, translatedText)
validateCall ==
    /\ ctl.k = "idle"
    /\ \E originalText \in UnitTexts, i \in 1..NumSamples :
          Applied("validateUrduTranslation", <<originalText, Samples[i]>>,
                  Ok(validateUrduTranslation(originalText, Samples[i])))

\* generateStaticSummary(content)
staticSummaryCall ==
    /\ ctl.k = "idle"
    /\ \E content \in UnitTexts \cup Documents :
          Applied("generateStaticSummary", content, Ok(generateStaticSummary(content)))

\* generateStaticSummary(content) as far as scoredSentences
scoringStep ==
    /\ ctl.k = "idle"
    /\ \E content \in UnitTexts \cup Documents :
          Applied("scoredSentences", content,
                  Ok(scoredSentences(longSentences(cleanContent(content)))))

\* this.extractSummaryFromText(text)
heuristicCall ==
    /\ ctl.k = "idle"
    /\ \E text \in UnitTexts :
          Applied("extractSummaryFromText", text, Ok(extractSummaryFromText(text)))

\* translateToUrduStatic(text)
staticTranslateCall ==
    /\ ctl.k = "idle"
    /\ \E text \in UnitTexts :
          Applied("translateToUrduStatic", text, translateToUrduStatic(JStr(text)))

\* GeminiService.translateToUrdu(text) from where generateContent has returned
\* the text raw
translationCall ==
    /\ ctl.k = "idle"
    /\ \E text \in UnitTexts, i \in 1..NumSamples :
          Applied("translationFromResponse", <<text, Samples[i]>>,
                  translationFromResponse(JStr(text), Samples[i]))

\* GeminiService.generateSummary(content) from where generateContent has
\* returned the text, with the content 'Markets grew.'
summaryResponseCall ==
    /\ ctl.k = "idle"
    /\ \E text \in AITexts :
          Applied("summaryFromResponse", <<Samples[6], text>>,
                  Ok(summaryFromResponse(Samples[6], text)))

\* GeminiService.generateSummaryAndTranslation(content) from where
\* generateContent has returned the text to the end of the try block
combinedResponseCall ==
    /\ ctl.k = "idle"
    /\ \E text \in AITexts :
          Applied("combinedFromResponse", <<Samples[6], text>>,
                  combinedFromResponse(Samples[6], text))

UnitNext ==
    \/ validateCall
    \/ staticSummaryCall
    \/ heuristicCall
    \/ staticTranslateCall
    \/ translationCall
    \/ scoringStep
    \/ summaryResponseCall
    \/ combinedResponseCall

UnitSpec == Init /\ [][UnitNext]_vars

----------------------------------------------------------------------------
(* RateLimiter: one instance, its callers and the clock. Time is counted   *)
(* in ticks; a timer fires when its time has come, or later.               *)

\* this.minInterval
minInterval == 2

\* How far the clock runs, and how many calls of throttle are made.
MaxTime == 7
MaxCalls == 3

\* A wait that ends at once
noWait(timeSinceLastCall) == 0

\* const waitTime = this.minInterval - timeSinceLastCall
waitTime(timeSinceLastCall) == minInterval - timeSinceLastCall

\* The calls of throttle made so far
ThrottleCalls == {i \in 1..Len(log) : log[i].e = "throttle"}

\* this.lastCall = Date.now(); return await fn(): fn is called at once
fnStarted(id) == [e |-> "fn", id |-> id, t |-> now]

\* throttle(fn) up to its first await: of the timer, or of fn()
throttle ==
    /\ ctl.k = "idle"
    /\ Cardinality(ThrottleCalls) < MaxCalls
    /\ LET id == Cardinality(ThrottleCalls) + 1
           timeSinceLastCall == now - lastCall
       IN  IF timeSinceLastCall < minInterval
           THEN /\ throttled' = Append(throttled, [id |-> id, at |-> "waiting",
                                                   due |-> now + waitTime(timeSinceLastCall)])
                /\ log' = Append(log, [e |-> "throttle", id |-> id, t |-> now])
                /\ UNCHANGED lastCall
           ELSE /\ throttled' = Append(throttled, [id |-> id, at |-> "running", due |-> now])
                /\ log' = log \o <<[e |-> "throttle", id |-> id, t |-> now], fnStarted(id)>>
                /\ lastCall' = now
    /\ UNCHANGED <<available, stack, ctl, mongo, supabase, response, now>>

\* The timer of a waiting call fires: this.lastCall = Date.now() and fn()
throttleWaited ==
    /\ ctl.k = "idle"
    /\ \E k \in 1..Len(throttled) :
          /\ throttled[k].at = "waiting"
          /\ throttled[k].due <= now
          /\ throttled' = [throttled EXCEPT ![k].at = "running"]
          /\ log' = Append(log, fnStarted(throttled[k].id))
          /\ lastCall' = now
    /\ UNCHANGED <<available, stack, ctl, mongo, supabase, response, now>>

\* fn() settles, and throttle returns what it returned or throws what it threw
throttleReturns ==
    /\ ctl.k = "idle"
    /\ \E k \in 1..Len(throttled) :
          /\ throttled[k].at = "running"
          /\ throttled' = SubSeq(throttled, 1, k - 1) \o SubSeq(throttled, k + 1, Len(throttled))
          /\ log' = Append(log, [e |-> "returned", id |-> throttled[k].id, t |-> now])
    /\ UNCHANGED <<available, stack, ctl, mongo, supabase, response, lastCall, now>>

\* A tick of the clock
Tick ==
    /\ ctl.k = "idle"
    /\ now < MaxTime
    /\ now' = now + 1
    /\ UNCHANGED <<available, stack, ctl, log, mongo, supabase, response, lastCall, throttled>>

LimiterNext ==
    \/ throttle
    \/ throttleWaited
    \/ throttleReturns
    \/ Tick

LimiterSpec == Init /\ [][LimiterNext]_vars

----------------------------------------------------------------------------
(* What the history of a call shows                                        *)

\* The positions of the log where an event of kind e stands
At(e) == {i \in 1..Len(log) : log[i].e = e}

\* The positions where fn is called, and where it returns
CallsOf(fn) == {i \in At("call") : log[i].fn = fn}
ReturnsOf(fn) == {i \in At("return") : log[i].fn = fn}

\* The positions where the AI operation op is requested
AICalls(op) == {i \in At("ai") : log[i].op = op}

\* The entry point fn was called
Entered(fn) == Len(log) > 0 /\ log[1].fn = fn

\* The entry point has returned to its caller
Done == ctl.k = "done"

----------------------------------------------------------------------------
(* C1: the fallback guarantee of the summarize-only and translate-only     *)
(* entry points                                                            *)

\* A SummaryResult: summary, keyPoints, wordCount and originalLength
IsSummaryResult(r) ==
    /\ DOMAIN r = {"summary", "keyPoints", "wordCount", "originalLength"}
    /\ IsStr(r.summary)
    /\ r.keyPoints.t = "array"
    /\ \A i \in 1..Len(r.keyPoints.xs) : IsStr(r.keyPoints.xs[i])
    /\ r.wordCount \in Nat
    /\ r.originalLength \in Nat

\* C1: when the AI service is unavailable or every AI operation raises,
\* generateSummary(content) and translateToUrdu(text) terminate, and what they
\* return is a well-formed SummaryResult, or a string, and never an
\* exception. They terminate: the only loop, that of the attempts to
\* translate, makes at most maxRetries attempts with a wait between two of
\* them, and no function is called twice otherwise.
C1_FallbackGuarantee ==
    (Entered("generateSummary") \/ Entered("translateToUrdu")) /\ At("ai-returned") = {} =>
        /\ Cardinality(CallsOf("GeminiService.translateToUrdu")) <= DefaultMaxRetries
        /\ Cardinality(At("setTimeout")) < DefaultMaxRetries
        /\ \A fn \in {"generateSummary", "GeminiService.generateSummary",
                      "translateToUrdu", "translateToUrduWithRetry"} :
              Cardinality(CallsOf(fn)) <= 1
        /\ Done /\ Entered("generateSummary") =>
              response.k = "ok" /\ IsSummaryResult(response.v)
        /\ Done /\ Entered("translateToUrdu") =>
              response.k = "ok" /\ IsStr(response.v)

\* generateSummary returned after the AI call raised
C1_Witness ==
    /\ Done
    /\ Entered("generateSummary")
    /\ At("ai-raised") # {}
    /\ response.k = "ok"

----------------------------------------------------------------------------
(* C2: what the summarize-only path returns after an AI failure            *)

\* C2: when generateSummary(content) has returned and the AI service failed
\* it (it was not available, or the call of it raised), the SummaryResult
\* returned is generateStaticSummary(content), and no other summarization
\* routine made it.
C2_StaticSummaryAfterAIFailure ==
    Done /\ Entered("generateSummary") /\ (~available \/ At("ai-raised") # {}) =>
        /\ response = Ok(generateStaticSummary(log[1].arg))
        /\ At("generateStaticSummary") # {}
        /\ At("fallbackSummary") = {}

----------------------------------------------------------------------------
(* C3: the attempts of the translate-only path                             *)

\* C3: translateToUrdu(text) makes at most two AI calls, and a dictionary
\* translation made because an AI call raised comes only after two AI calls
\* were made.
C3_SecondAttemptBeforeDictionary ==
    Entered("translateToUrdu") =>
        /\ Cardinality(AICalls("translate")) <= 2
        /\ \A i \in At("fallbackTranslation") \cup At("translateToUrduStatic") :
              (\E j \in At("ai-raised") : j < i) =>
                  Cardinality({j \in AICalls("translate") : j < i}) = 2

----------------------------------------------------------------------------
(* C4, C5: the validation of an AI translation. A "validated" event is     *)
(* followed by the return of the function that validated.                  *)

\* The translatedText of the result returned at position i of the log
TranslatedTextAt(i) ==
    IF log[i].fn = "GeminiService.translateToUrdu"
    THEN log[i].r.v.translatedText
    ELSE log[i].r.v.translation.translatedText

HasIssue(i, issue) == \E k \in 1..Len(log[i].issues) : log[i].issues[k] = issue

\* C4: when an AI call returned a translation (translate-only or combined),
\* the translatedText of the result is the dictionary translation of the
\* original if the validator raised NoScript, and the cleaned AI text if it
\* did not, whatever other issues it raised.
C4_SubstitutionIffNoScript ==
    \A i \in At("validated") :
        /\ log[i].substituted <=> HasIssue(i, NoScript)
        /\ log[i + 1].e = "return"
        /\ log[i + 1].r.k = "ok"
        /\ TranslatedTextAt(i + 1) = IF HasIssue(i, NoScript)
                                     THEN fallbackTranslation(log[i].original).v
                                     ELSE log[i].cleaned

\* An AI translation with too many English words, but some Urdu script, was
\* kept
C4_Witness ==
    \E i \in At("validated") :
        /\ HasIssue(i, TooEnglish)
        /\ ~HasIssue(i, NoScript)
        /\ TranslatedTextAt(i + 1) = log[i].cleaned

\* C5: a translatedText that is the cleaned AI text contains a character of
\* the Arabic/Urdu ranges; a result of translateToUrdu or of the combined
\* operation whose translatedText has none was made by the dictionary
\* fallback: after a failure, or by substitution (or, in the combined
\* operation, by the translate step it fell back on).
C5_KeptAITextHasUrduScript ==
    /\ \A i \in At("validated") :
          ~log[i].substituted =>
              /\ TranslatedTextAt(i + 1) = log[i].cleaned
              /\ containsUrduScript(log[i].cleaned.s)
    /\ \A i \in ReturnsOf("GeminiService.translateToUrdu")
                   \cup ReturnsOf("GeminiService.generateSummaryAndTranslation") :
          log[i].r.k = "ok" /\ ~containsUrduScript(TranslatedTextAt(i).s) =>
              \/ log[i - 1].e = "fallbackTranslation"
              \/ log[i - 1].e = "validated" /\ log[i - 1].substituted
              \/ /\ log[i].fn = "GeminiService.generateSummaryAndTranslation"
                 /\ log[i - 1].e = "return"
                 /\ log[i - 1].fn = "GeminiService.translateToUrdu"

\* The combined operation returned the cleaned AI text as translatedText
C5_Witness ==
    \E i \in At("validated") :
        /\ log[i].fn = "GeminiService.generateSummaryAndTranslation"
        /\ ~log[i].substituted
        /\ TranslatedTextAt(i + 1) = log[i].cleaned

----------------------------------------------------------------------------
(* C6: the combined operation and what replaces it                         *)

\* C6: a request makes the combined AI call at most once. When it raises,
\* generateSummary is called next with the same content, and the combined
\* operation then calls translateToUrdu with the summary that generateSummary
\* returned; a result of the combined operation is made of what the two
\* returned. When the
\* combined operation throws, POST does the same with the functions of the
\* summarizer and the translator.
C6_CombinedOnceThenSeparate ==
    Entered("POST") =>
        /\ Cardinality(AICalls("combined")) <= 1
        /\ Cardinality(CallsOf("GeminiService.generateSummaryAndTranslation")) <= 1
        /\ \A i \in AICalls("combined") :
              i + 1 <= Len(log) /\ log[i + 1].e = "ai-raised" =>
                  /\ i + 2 <= Len(log) =>
                        log[i + 2] = [e |-> "call", fn |-> "GeminiService.generateSummary",
                                      arg |-> log[i].arg]
                  /\ \A j \in CallsOf("GeminiService.translateToUrdu") :
                        (\A r \in ReturnsOf("GeminiService.generateSummaryAndTranslation") : j < r) =>
                            /\ log[j - 1].e = "return"
                            /\ log[j - 1].fn = "GeminiService.generateSummary"
                            /\ log[j - 1].r.k = "ok"
                            /\ log[j].arg = log[j - 1].r.v.summary
                  /\ \A j \in ReturnsOf("GeminiService.generateSummaryAndTranslation") :
                        log[j].r.k = "ok" =>
                            /\ log[j - 1].e = "return"
                            /\ log[j - 1].fn = "GeminiService.translateToUrdu"
                            /\ log[j].r.v.translation = log[j - 1].r.v
                            /\ log[j].r.v.translation.originalText = log[j].r.v.summary.summary
        /\ \A j \in CallsOf("translateToUrdu") :
              /\ log[j - 1].e = "return"
              /\ log[j - 1].fn = "generateSummary"
              /\ log[j - 1].r.k = "ok"
              /\ log[j].arg = log[j - 1].r.v.summary

\* The combined call raised, and the combined operation returned what the
\* separate steps made
C6_Witness ==
    /\ Entered("POST")
    /\ \E i \in AICalls("combined") : i < Len(log) /\ log[i + 1].e = "ai-raised"
    /\ \E j \in ReturnsOf("GeminiService.generateSummaryAndTranslation") : log[j].r.k = "ok"

----------------------------------------------------------------------------
(* C7: a text returned by the AI is never an AI failure                    *)

\* C7: when the AI call of generateSummary or of the combined operation
\* returned a text, whatever the text, the function returns a result made
\* from it: what follows is the validation of the translation and the return
\* of a result, not a fallback summarizer and not another call.
C7_ReturnedTextIsParsed ==
    \A i \in At("ai-returned") :
        log[i - 1].op \in {"summarize", "combined"} /\ i < Len(log) =>
            \/ log[i + 1].e = "return" /\ log[i + 1].r.k = "ok"
            \/ /\ log[i + 1].e = "validated"
               /\ log[i + 2].e = "return"
               /\ log[i + 2].r.k = "ok"

----------------------------------------------------------------------------
(* C8, C9, C10: POST /api/summarize                                        *)

\* Nothing was fetched, no AI call was made and nothing was written
NothingBeyond(events) ==
    /\ \A e \in {"axios-get", "ai", "mongo-connect", "insertOne", "insert"} \ events :
          At(e) = {}
    /\ mongo = <<>>
    /\ supabase = <<>>

\* POST has returned an error response of this status
ErrorResponse(status) ==
    /\ response.k = "ok"
    /\ response.v.status = status
    /\ "error" \in DOMAIN response.v.body
    /\ DOMAIN response.v.body \subseteq {"error", "details"}

\* C8: a POST whose body has no url, or a url that new URL does not accept,
\* returns an error response at once: no function is called, nothing is
\* fetched, no AI call is made and nothing is written to either store.
C8_BadUrlRejectedAtOnce ==
    /\ Entered("POST")
    /\ log[1].arg.k = "ok"
    /\ CanRead(log[1].arg.v)
    /\ LET url == Member(log[1].arg.v, KeyUrl)
       IN  ~Truthy(url) \/ ~IsStr(url) \/ ~URLParses(url.s)
    => /\ NothingBeyond({})
       /\ IF Done THEN Len(log) = 2 /\ ErrorResponse(400) ELSE Len(log) = 1

\* A POST with a text that is no URL has returned
C8_Witness ==
    /\ Done
    /\ Entered("POST")
    /\ log[1].arg.k = "ok"
    /\ CanRead(log[1].arg.v)
    /\ IsStr(Member(log[1].arg.v, KeyUrl))
    /\ Truthy(Member(log[1].arg.v, KeyUrl))
    /\ ~URLParses(Member(log[1].arg.v, KeyUrl).s)
    /\ response.v.status = 400

\* C9: when the fetch of the page fails, or the content extracted from the
\* page has fewer than 50 characters, POST returns an error response, and no
\* AI call is made and nothing is written to either store.
C9_ContentFailureIsTerminal ==
    /\ Entered("POST")
    /\ \/ At("axios-failed") # {}
       \/ \E i \in At("axios-returned") : Len(extractedContent(log[i].page)) < 50
    => /\ NothingBeyond({"axios-get"})
       /\ Done => ErrorResponse(500)

\* A POST has returned after the page it fetched had too little content
C9_Witness ==
    /\ Done
    /\ Entered("POST")
    /\ \E i \in At("axios-returned") : Len(extractedContent(log[i].page)) < 50
    /\ response.v.status = 500

\* C10: the response of POST is a success, carrying the summary and the
\* translation, only if both the MongoDB write and the Supabase write
\* succeeded: the document and the row are stored and the response carries
\* what they hold. If a store rejected the write, the response is an error
\* with nothing but the error and its details.
C10_SuccessOnlyAfterBothWrites ==
    Done /\ Entered("POST") =>
        /\ response.k = "ok"
        /\ response.v.status = 200 =>
              /\ At("mongo-inserted") # {}
              /\ At("supabase-inserted") # {}
              /\ Len(mongo) = 1
              /\ Len(supabase) = 1
              /\ response.v.body.data.summary = mongo[1].summary
              /\ response.v.body.data.summaryUrdu = mongo[1].summaryUrdu
              /\ response.v.body.data.summary = supabase[1].summary
              /\ response.v.body.data.summaryUrdu = supabase[1].summary_urdu
        /\ (\E e \in {"mongo-unreachable", "mongo-rejected",
                      "supabase-error", "supabase-rejected"} : At(e) # {}) =>
              ErrorResponse(500)

\* The MongoDB write succeeded, the Supabase write was rejected, and POST has
\* returned
C10_Witness ==
    /\ Done
    /\ Entered("POST")
    /\ At("mongo-inserted") # {}
    /\ At("supabase-error") \cup At("supabase-rejected") # {}
    /\ response.v.status = 500

----------------------------------------------------------------------------
(* C11: POST when only the AI service fails                                *)

\* The page was fetched with content enough, and no write to a store failed
FetchedAndNoWriteFailed ==
    /\ \E i \in At("axios-returned") : Len(extractedContent(log[i].page)) >= 50
    /\ \A e \in {"mongo-unreachable", "mongo-rejected", "supabase-error", "supabase-rejected"} :
          At(e) = {}

\* C11: when POST /api/summarize has returned for a valid url whose page was
\* fetched, and no write to a store failed, the response is the success
\* response, in the combined and in the separate mode, whatever the AI service
\* did: not available, raising, or returning any text.
C11_AIFailureAloneIsNoError ==
    Done /\ Entered("POST") /\ FetchedAndNoWriteFailed =>
        response.k = "ok" /\ response.v.status = 200

----------------------------------------------------------------------------
(* C12: the issues validateUrduTranslation returns                         *)

\* The function fn was called, alone, and has returned
Called(fn) == Done /\ Len(log) = 2 /\ log[1].fn = fn

\* The words of a text: its maximal runs of characters that are no whitespace
WordCount(text) ==
    Cardinality({i \in 1..Len(text) : ~IsSpace(text[i]) /\ (i = 1 \/ IsSpace(text[i - 1]))})

\* The runs of Latin letters of a text
LatinRuns(text) ==
    Cardinality({i \in 1..Len(text) :
                    /\ text[i] \in (65..90) \cup (97..122)
                    /\ i = 1 \/ text[i - 1] \notin (65..90) \cup (97..122)})

\* The text has a character of the Arabic and Urdu ranges
InUrduRanges(text) ==
    \E i \in 1..Len(text) :
       text[i] \in (1536..1791) \cup (1872..1919) \cup (2208..2303)
                   \cup (64336..65023) \cup (65136..65279)

\* C12: validateUrduTranslation(original, translated) returns exactly the
\* issues whose condition holds, each decided alone: NoScript iff translated
\* has no character of the Urdu ranges, TooShort iff len(translated) <
\* 0.3 * len(original), TooEnglish iff the runs of Latin letters of translated
\* are more than 0.7 * the words of original; isValid iff there is no issue.
C12_IssuesAreExactlyThoseThatHold ==
    Called("validateUrduTranslation") =>
        LET original == log[1].arg[1]
            translated == log[1].arg[2]
            issues == response.v.issues
            Has(issue) == \E i \in 1..Len(issues) : issues[i] = issue
        IN  /\ Has(NoScript) <=> ~InUrduRanges(translated)
            /\ Has(TooShort) <=> 10 * Len(translated) < 3 * Len(original)
            /\ Has(TooEnglish) <=> 10 * LatinRuns(translated) > 7 * WordCount(original)
            /\ \A i \in 1..Len(issues) : issues[i] \in {NoScript, TooShort, TooEnglish}
            /\ \A i, j \in 1..Len(issues) : issues[i] = issues[j] => i = j
            /\ response.v.isValid <=> Len(issues) = 0

----------------------------------------------------------------------------
(* C13: wordCount and originalLength on the three summarization paths      *)

\* C13: for the same content, the wordCount and the originalLength that
\* generateStaticSummary returns are those of the fallback of the AI service
\* and those of the result made of any text the AI returned.
C13_CountsDoNotDependOnPath ==
    Called("generateStaticSummary") =>
        LET content == log[1].arg
            counts(r) == <<r.wordCount, r.originalLength>>
        IN  /\ counts(response.v) = counts(fallbackSummary(content))
            /\ \A i \in 1..NumReplies :
                  counts(response.v) = counts(summaryFromResponse(content, ReplyCatalogue[i]))

----------------------------------------------------------------------------
(* C14: the counts of generateStaticSummary                                *)

\* C14: for every content, the empty one and one that cleaning leaves empty
\* included, generateStaticSummary returns as wordCount the number of words
\* of the cleaned content and as originalLength its number of characters.
C14_CountsOfCleanedContent ==
    Called("generateStaticSummary") =>
        /\ response.v.wordCount = WordCount(cleanContent(log[1].arg))
        /\ response.v.originalLength = Len(cleanContent(log[1].arg))

----------------------------------------------------------------------------
(* C15: the summary and the key points of generateStaticSummary            *)

\* C15: for every content that is not empty, generateStaticSummary returns a
\* summary that is a string and not empty, and at most 5 key points.
C15_SummaryNotEmptyAndFewKeyPoints ==
    Called("generateStaticSummary") /\ Len(log[1].arg) > 0 =>
        /\ IsStr(response.v.summary)
        /\ Len(response.v.summary.s) > 0
        /\ response.v.keyPoints.t = "array"
        /\ Len(response.v.keyPoints.xs) <= 5

\* A content with more than 5 numbered items was summarized, and 5 of them
\* are the key points
C15_Witness ==
    /\ Called("generateStaticSummary")
    /\ Len(numberedMatches(cleanContent(log[1].arg), 1)) > 5
    /\ Len(response.v.keyPoints.xs) = 5
    /\ Len(response.v.summary.s) > 0

----------------------------------------------------------------------------
(* C16: generateStaticSummary when no sentence is long enough              *)

\* C16: whenever no sentence of the cleaned content is longer than 10
\* characters, generateStaticSummary returns the summary 'Unable to generate
\* summary from the provided content.' and no key point.
C16_NoCandidateNoKeyPoint ==
    Called("generateStaticSummary") /\ longSentences(cleanContent(log[1].arg)) = <<>> =>
        /\ response.v.summary = JStr(UnableFromContent)
        /\ response.v.keyPoints = JArr(<<>>)

----------------------------------------------------------------------------
(* C17: what extractSummaryFromText makes of a labelled summary            *)

\* summary:
SummaryLabel == <<115, 117, 109, 109, 97, 114, 121, 58>>

\* The lines after the first are list items: '-' and the point
ItemsAfterFirst(lines) ==
    /\ Len(lines) > 1
    /\ \A i \in 2..Len(lines) : Len(lines[i]) > 1 /\ lines[i][1] = 45

\* C17: for a text whose first line is '<prefix> summary: <S>' and whose
\* other lines are '- <P1>', '- <P2>', extractSummaryFromText returns the
\* summary <S>, without the label and without what stands before it, and the
\* key points <P1>, <P2> in order. For 'Here is the summary: Markets grew.'
\* followed by '- Point one' and '- Point two' these are 'Markets grew.' and
\* 'Point one', 'Point two'.
C17_LabelAndPrefixRemoved ==
    Called("extractSummaryFromText") =>
        LET lines == SplitEach(log[1].arg, 10)
        IN  \A p \in 1..Len(lines[1]) :
               /\ OccursAt(lines[1], SummaryLabel, p)
               /\ \A q \in 1..(p - 1) : ~OccursAt(lines[1], SummaryLabel, q)
               /\ ItemsAfterFirst(lines)
               => /\ response.v.summary
                        = Trim(SubSeq(lines[1], p + Len(SummaryLabel), Len(lines[1])))
                  /\ response.v.keyPoints
                        = [i \in 1..(Len(lines) - 1) |->
                              Trim(SubSeq(lines[i + 1], 2, Len(lines[i + 1])))]

----------------------------------------------------------------------------
(* C18: the dictionary translation that replaces a rejected AI translation *)

\* A word without the punctuation that the lookup removes
Stripped(word) ==
    SelectSeq(word, LAMBDA c : c \notin {46, 44, 33, 63, 59, 58, 40, 41, 91, 93, 123, 125, 39, 34})

\* Some word of the text, in lower case and stripped, is a key of the table
HasWordOf(dict, text) ==
    \E w \in 1..Len(SplitSpace(ToLower(text))) :
       \E i \in 1..Len(dict) : dict[i][1] = Stripped(SplitSpace(ToLower(text))[w])

\* GeminiService.translateToUrdu replaced the AI text by the dictionary
\* translation
Substituted == Called("translationFromResponse") /\ response.k = "ok" /\ response.validation.substituted

----------------------------------------------------------------------------
(* C19: translateToUrduStatic against its reference                        *)

\* The reference for one token: the value of the table if the token, in lower
\* case and stripped, is a key, and the token as it was written otherwise
ReferenceWord(dict, token) ==
    IF \E i \in 1..Len(dict) : dict[i][1] = Stripped(ToLower(token))
    THEN dict[CHOOSE i \in 1..Len(dict) : dict[i][1] = Stripped(ToLower(token))][2]
    ELSE token

\* The reference for a text: its tokens between whitespace, each mapped, joined
\* by single spaces
ReferenceTranslation(dict, text) ==
    Join([i \in 1..Len(SplitSpace(text)) |-> ReferenceWord(dict, SplitSpace(text)[i])], <<32>>)

\* C19: translateToUrduStatic(text) never fails and equals the reference: the
\* text split on whitespace, each token replaced by the value of the table if
\* the lower-cased, punctuation-stripped token is a key and otherwise kept
\* with its letter case unchanged, the outputs joined with single spaces.
C19_StaticTranslationIsTheReference ==
    Called("translateToUrduStatic") =>
        /\ response.k = "ok"
        /\ response.v = JStr(ReferenceTranslation(englishToUrdu, log[1].arg))

----------------------------------------------------------------------------
(* C20: the table behind the dictionary translations of GeminiService      *)

\* The returns of translations that the dictionary made: after the catch block
\* of translateToUrdu, after the retries of translateToUrduWithRetry, or in
\* place of an AI translation that was rejected
DictionaryMade ==
    {i \in ReturnsOf("GeminiService.translateToUrdu") \cup ReturnsOf("translateToUrduWithRetry") :
        /\ log[i].r.k = "ok"
        /\ \/ log[i - 1].e = "fallbackTranslation"
           \/ log[i - 1].e = "validated" /\ log[i - 1].substituted}

\* The call that the return at position i of the log answers
CallOf(i) ==
    CHOOSE j \in 1..(i - 1) :
        /\ log[j].e = "call" /\ log[j].fn = log[i].fn
        /\ \A k \in (j + 1)..(i - 1) : ~(log[k].e = "call" /\ log[k].fn = log[i].fn)

\* C20: every dictionary substitution the orchestrator makes maps each token
\* against the one fixed table: for the same input text it yields the same
\* output as translateToUrduStatic.
C20_SubstitutionsUseTheStaticTable ==
    \A i \in DictionaryMade :
        log[i].r.v.translatedText = translateToUrduStatic(log[CallOf(i)].arg).v

----------------------------------------------------------------------------
(* C21: what GET /api/health reports of the AI                             *)

\* C21: GET /api/health reports gemini = true ("connected") only if the AI
\* call made by the probe succeeded; if that AI call raises, gemini is false;
\* and status is "healthy" iff mongodb, supabase and gemini are all true,
\* otherwise "partial".
C21_GeminiTrueOnlyAfterAISuccess ==
    Done /\ Entered("GET") =>
        /\ response.k = "ok"
        /\ response.v.body.connections.gemini => At("ai-returned") # {}
        /\ At("ai-raised") # {} => ~response.v.body.connections.gemini
        /\ response.v.body.services.gemini
              = (IF response.v.body.connections.gemini THEN "connected" ELSE "disconnected")
        /\ response.v.body.status
              = (IF /\ response.v.body.connections.mongodb
                    /\ response.v.body.connections.supabase
                    /\ response.v.body.connections.gemini
                 THEN "healthy" ELSE "partial")

----------------------------------------------------------------------------
(* C22: the sentences generateStaticSummary selects                        *)

\* The sentence candidates of a content
Candidates(content) == longSentences(cleanContent(content))

\* min(5, ceil(0.3 n)): the least k with 10 k >= 3 n, and 5 at most
QuotaOf(n) == CHOOSE k \in 0..5 : (10 * k >= 3 * n \/ k = 5) /\ \A j \in 0..(k - 1) : 10 * j < 3 * n

\* The scores of the candidates
Scores(sentences) ==
    [i \in 1..Len(sentences) |-> sentenceScore(sentences[i], i - 1, Len(sentences))]

\* The positions of the candidates that fewer than quota candidates beat: one
\* beats another when its score is higher, or equal and it is earlier
Beaten(score, quota) ==
    {i \in 1..Len(score) :
        Cardinality({j \in 1..Len(score) : score[j] > score[i] \/ (score[j] = score[i] /\ j < i)})
        < quota}

Chosen(sentences) == Beaten(Scores(sentences), QuotaOf(Len(sentences)))

\* The candidates at the positions of S in document order
Selected(sentences, S) ==
    [k \in 1..Cardinality(S) |->
        sentences[CHOOSE i \in S : Cardinality({j \in S : j < i}) = k - 1]]

\* C22: for n >= 1 sentence candidates the summary of generateStaticSummary
\* consists of exactly min(5, ceil(0.3 n)) candidates: the highest-scoring
\* ones, equal scores resolved in favour of the earlier candidate, emitted in
\* their original document order.
C22_TopCandidatesInDocumentOrder ==
    Called("generateStaticSummary") =>
        With(Candidates(log[1].arg),
             LAMBDA sentences :
                Len(sentences) >= 1 =>
                   With(Chosen(sentences),
                        LAMBDA S :
                           /\ Cardinality(S) = QuotaOf(Len(sentences))
                           /\ response.v.summary
                                 = JStr(Join(Selected(sentences, S), <<46, 32>>) \o <<46>>)))

\* A document of four candidates: two are selected, and the second of them
\* has the score of a later candidate, which is another sentence
C22_Witness ==
    /\ Called("generateStaticSummary")
    /\ With(Candidates(log[1].arg),
            LAMBDA sentences :
               /\ Len(sentences) = 4
               /\ Cardinality(Chosen(sentences)) = 2
               /\ \E i \in Chosen(sentences) :
                     \E j \in 1..4 \ Chosen(sentences) :
                        /\ i < j
                        /\ sentences[i] # sentences[j]
                        /\ Scores(sentences)[i] = Scores(sentences)[j])

----------------------------------------------------------------------------
(* C23: the bonuses for the position of a sentence                         *)

\* What a sentence scores for its words, digits and brackets: its score at a
\* position that is neither in the first nor in the last part (the second of
\* two sentences)
PointsOfText(sentence) == sentenceScore(sentence, 1, 2)

\* The bonuses of C23 for the 0-based index i among n candidates
LeadBonus(i, n) == IF 5 * i < n THEN 3 ELSE 0
ConclusionBonus(i, n) == IF 5 * i >= 4 * n THEN 2 ELSE 0

\* C23: with n candidates, the candidate at 0-based index i receives the +3
\* lead bonus exactly when i < 0.2 n and the +2 conclusion bonus exactly when
\* i >= 0.8 n, so the final candidate always receives the conclusion bonus.
C23_PositionBonuses ==
    Called("scoredSentences") =>
        \A k \in 1..Len(response.v) :
            /\ response.v[k].index = k - 1
            /\ response.v[k].score
                  = PointsOfText(response.v[k].sentence)
                    + LeadBonus(k - 1, Len(response.v))
                    + ConclusionBonus(k - 1, Len(response.v))
            /\ k = Len(response.v) =>
                  response.v[k].score
                     >= PointsOfText(response.v[k].sentence) + 2
                  /\ response.v[k].score # PointsOfText(response.v[k].sentence) + 3

----------------------------------------------------------------------------
(* C24: AI text that is JSON of another structure                          *)

\* The AI text parses as JSON
ParsesAsJson(text) == JSONparse(Trim(StripFencesFrom(text, 1))).k = "ok"

\* The JSON of the AI text lacks a summary, or its keyPoints is not an array
StructuralMismatch(text) ==
    With(JSONparse(Trim(StripFencesFrom(text, 1))).v,
         LAMBDA p : ~Truthy(Member(p, KeySummary)) \/ Member(p, KeyKeyPoints).t # "array")

\* v is a sequence of strings
IsStringArray(v) == v.t = "array" /\ \A i \in 1..Len(v.xs) : v.xs[i].t = "string"

\* The summary result (of generateSummary, or in the result of the combined
\* operation) that the call has returned
SummaryReturned ==
    IF log[1].fn = "combinedFromResponse" THEN response.v.summary ELSE response.v

\* C24: in both parser variants (summarize-only and combined), AI text that
\* parses as JSON but lacks a summary, or whose keyPoints is not an array, is
\* handled by line-based heuristic extraction over the raw text, so the
\* keyPoints returned to the caller is always a sequence of strings.
C24_MismatchGoesToHeuristic ==
    (Called("summaryFromResponse") \/ Called("combinedFromResponse")) /\ response.k = "ok" =>
        /\ ParsesAsJson(log[1].arg[2]) /\ StructuralMismatch(log[1].arg[2]) =>
              /\ SummaryReturned.summary
                    = OrElse(JStr(extractSummaryFromText(log[1].arg[2]).summary),
                             JStr(UnableToGenerate))
              /\ SummaryReturned.keyPoints
                    = StrArray(extractSummaryFromText(log[1].arg[2]).keyPoints)
        /\ IsStringArray(SummaryReturned.keyPoints)

----------------------------------------------------------------------------
(* C25: the distance between the calls a RateLimiter lets through          *)

\* The positions of the log where throttle called fn
FnStarts == {i \in 1..Len(log) : log[i].e = "fn"}

\* Any two calls of fn began at least minInterval apart
SpacedOut == \A i, j \in FnStarts : i < j => log[j].t - log[i].t >= minInterval

\* Some call of throttle was made while an earlier call had not yet called fn
CalledWhileWaiting ==
    \E p, q \in ThrottleCalls :
       /\ q < p
       /\ ~\E i \in FnStarts : i < p /\ log[i].id = log[q].id

\* C25 as stated: for one RateLimiter instance, any two invocations of the
\* wrapped function started through throttle begin at least minInterval
\* apart, both when throttle calls are made one after another and when a
\* second throttle call starts while an earlier one is still waiting.
C25_AnyTwoCallsSpacedOut == ThrottleCalls # {} => SpacedOut

\* C25, amended: any two invocations of the wrapped function begin at least
\* minInterval apart when no throttle call is made while an earlier one is
\* still waiting.
C25_SpacedOutWhenNoCallWhileWaiting ==
    ThrottleCalls # {} /\ ~CalledWhileWaiting => SpacedOut

\* A second call was made after the first had called fn, had to wait and has
\* called fn, minInterval after the first
C25_Witness ==
    /\ ~CalledWhileWaiting
    /\ \E i, j \in FnStarts :
          /\ i < j
          /\ log[j - 1].e # "throttle"
          /\ log[j].t - log[i].t = minInterval

----------------------------------------------------------------------------
(* C26                                                                     *)

\* The attempts made before place i of the history
AttemptsBefore(i) == {j \in CallsOf("GeminiService.translateToUrdu") : j < i}

RECURSIVE Pow2(_)
Pow2(n) == IF n = 0 THEN 1 ELSE 2 * Pow2(n - 1)

\* C26: in translateToUrduWithRetry the wait between failed attempt k and
\* attempt k+1 is 1000 ms * 2^(k-1), for every maxRetries, and no wait
\* follows the final attempt.
C26_ExponentialBackoff ==
    Entered("translateToUrduWithRetry") =>
        \A i \in At("setTimeout") :
            With(Cardinality(AttemptsBefore(i)), LAMBDA k :
                /\ k < log[1].maxRetries
                /\ log[i].ms = 1000 * Pow2(k - 1))

----------------------------------------------------------------------------
(* C27                                                                     *)

\* The request asks for the combined operation: useOptimized is left out or truthy
OptimizedRequested ==
    /\ log[1].arg.k = "ok"
    /\ CanRead(log[1].arg.v)
    /\ With(Member(log[1].arg.v, KeyUseOptimized), LAMBDA given :
            given = JUndefined \/ Truthy(given))

AIOperations == {"combined", "summarize", "translate"}

\* C27: a POST /api/summarize request makes a bounded number of AI calls
\* and ends with a response: at most 3 calls in combined mode (one
\* combined, one summarize, one translate), at most 2 in separate mode
\* (one summarize, one translate), whatever the AI calls return or raise.
C27_BoundedAICalls ==
    Entered("POST") =>
        /\ \A i \in At("ai") : log[i].op \in AIOperations
        /\ \A op \in AIOperations : Cardinality(AICalls(op)) <= 1
        /\ ~OptimizedRequested => AICalls("combined") = {}
        /\ Cardinality(At("ai")) <= IF OptimizedRequested THEN 3 ELSE 2
        /\ Done => response.k = "ok" /\ response.v.status \in {200, 400, 500}

----------------------------------------------------------------------------
(* C28                                                                     *)

CombinedResults ==
    {i \in ReturnsOf("GeminiService.generateSummaryAndTranslation") : log[i].r.k = "ok"}

\* C28: every result that generateSummaryAndTranslation returns, built from
\* the reply to the combined prompt or by the separate operations of its
\* catch block, has translation.originalText = summary.summary and
\* translation.language = "urdu".
C28_TranslationIsOfTheSummary ==
    \A i \in CombinedResults :
        /\ log[i].r.v.translation.originalText = log[i].r.v.summary.summary
        /\ log[i].r.v.translation.language = "urdu"

\* A result of the catch block: the combined call raised, and the summary
\* and the translation come from the separate operations
C28_Witness ==
    /\ CombinedResults # {}
    /\ CallsOf("GeminiService.translateToUrdu") # {}
    /\ \E i \in CombinedResults : Len(log[i].r.v.summary.summary.s) > 0

----------------------------------------------------------------------------
(* C29                                                                     *)

\* fn has returned a value before place i of the history
ReturnedBefore(fn, i) == \E j \in ReturnsOf(fn) : j < i /\ log[j].r.k = "ok"

\* The summary and the translation are there before place i
ComputedBefore(i) ==
    \/ ReturnedBefore("GeminiService.generateSummaryAndTranslation", i)
    \/ ReturnedBefore("generateSummary", i) /\ ReturnedBefore("translateToUrdu", i)

SupabaseFailed == At("supabase-error") \cup At("supabase-rejected") # {}

\* C29: in POST /api/summarize a store write is made only after the
\* summary and the translation are computed; the Supabase write is made only
\* after the MongoDB write has succeeded; and when the Supabase write fails
\* the request returns an error and the MongoDB record stays in place.
C29_StoreWritesInOrder ==
    Entered("POST") =>
        /\ \A i \in At("insertOne") \cup At("insert") : ComputedBefore(i)
        /\ \A i \in At("insert") : \E j \in At("mongo-inserted") : j < i
        /\ Len(mongo) = Cardinality(At("mongo-inserted"))
        /\ SupabaseFailed /\ Done =>
              /\ response.v.status = 500
              /\ Len(mongo) = 1
              /\ supabase = <<>>

\* A request whose Supabase write failed after its MongoDB write
C29_Witness ==
    /\ Entered("POST") /\ Done /\ SupabaseFailed
    /\ Len(mongo) = 1
    /\ response.v.status = 500

----------------------------------------------------------------------------
(* C30                                                                     *)

Invocations == At("fn")
Failures == At("fn-threw")

\* What the last invocation threw
LastThrown == [isError |-> log[MaxOr(Failures, 0)].isError, of |-> log[MaxOr(Failures, 0)].of]

\* At most maxRetries + 1 invocations; none after one that succeeded, whose
\* value is returned; a wait of delayMs * 2^i after failure i unless it is
\* the last.
RetriesAsClaimed ==
    /\ Cardinality(Invocations) <= MaxOr({log[1].maxRetries + 1}, 0)
    /\ \A i \in At("fn-returned") :
          /\ \A j \in Invocations : j < i
          /\ Done => response = Ok([of |-> log[i].of])
    /\ \A i \in At("setTimeout") :
          /\ log[i - 1].e = "fn-threw"
          /\ log[i - 1].of < log[1].maxRetries
          /\ log[i].ms = log[1].delayMs * Pow2(log[i - 1].of)
    /\ \A i \in Failures :
          log[i].of < log[1].maxRetries /\ i < Len(log) => log[i + 1].e = "setTimeout"
    /\ Done => response.k \in {"ok", "throw"}

AllFailed == Done /\ At("fn-returned") = {}

\* C30 as stated: RetryHandler.retry(fn, maxRetries, delayMs) invokes fn at
\* most maxRetries + 1 times, returns the value of the first invocation that
\* succeeds without invoking fn again, waits delayMs * 2^i after failure i
\* except the last, and throws what the last invocation threw if all fail.
C30_ThrowsTheLastError ==
    Entered("RetryHandler.retry") =>
        /\ RetriesAsClaimed
        /\ AllFailed /\ Failures # {} => response = Throw(LastThrown)

\* C30, amended: as stated, but if all invocations fail it throws what the
\* last invocation threw when that is an Error, and a new Error 'Unknown
\* error' when it is not; with a negative maxRetries fn is not invoked and
\* undefined is thrown.
C30_ThrowsTheLastErrorOrUnknown ==
    Entered("RetryHandler.retry") =>
        /\ RetriesAsClaimed
        /\ AllFailed /\ log[1].maxRetries >= 0 =>
              /\ Cardinality(Invocations) = log[1].maxRetries + 1
              /\ response = Throw(IF LastThrown.isError THEN LastThrown ELSE UnknownError)
        /\ AllFailed /\ log[1].maxRetries < 0 =>
              Invocations = {} /\ response = Throw(JUndefined)

\* Three invocations failed with waits between them, the last with an Error
C30_Witness ==
    /\ Entered("RetryHandler.retry") /\ AllFailed
    /\ log[1].maxRetries = 2
    /\ Cardinality(At("setTimeout")) = 2
    /\ response = Throw([isError |-> TRUE, of |-> 2])

====
